---- MODULE Spec2Model ----
(***************************************************************************)
(* A model of LibJsonValidator: the schema compiler (Parser), the          *)
(* reference resolver and the validator (JsonSchemaNode::validate and its  *)
(* per-variant overrides).                                                 *)
(*                                                                         *)
(* JSON values are records tagged by t; numbers are held in units of       *)
(* 1/Den so that the doubles the model uses are exact.  Strings are TLA+   *)
(* strings; the code's character scans use Len and SubSeq on them.         *)
(* A schema node is a record with the fields of JsonSchemaNode and of its  *)
(* subclasses; an owned child is held inside its parent, an Optional or    *)
(* OwnPtr is a sequence of length 0 or 1, and a raw pointer to a node is   *)
(* the path of slots that leads to it from the root.                       *)
(***************************************************************************)
EXTENDS Integers, Sequences, FiniteSets, TLC

(***************************************************************************)
(* Bounds of the model.                                                    *)
(***************************************************************************)
\* deepest chain of nested validate calls followed before the run is
\* declared a stack overflow
MaxDepth == 8
\* longest list of parser errors one Parser object accumulates
MaxParserErrors == 1
\* longest list of sub-schemas under allOf, anyOf and oneOf
MaxChildren == 3
\* the largest argument count a process of main is started with
MaxArgc == 4
\* the most iterations one call of resolve_reference(ref, root) is followed for
MaxTokens == 6

\* numbers are counted in units of 1/Den
Den == 2

None == <<>>
Some(x) == <<x>>
has_value(o) == Len(o) > 0

\* a local variable: F applied to the value of v, which is computed once
With(v, F(_)) == CHOOSE r \in {F(x) : x \in {v}} : TRUE
With2(v, w, F(_, _)) == CHOOSE r \in {F(x, y) : x \in {v}, y \in {w}} : TRUE

(***************************************************************************)
(* AK::JsonValue                                                           *)
(***************************************************************************)
JUndef == [t |-> "undefined"]
JNull == [t |-> "null"]
JBool(b) == [t |-> "bool", b |-> b]
JInt(n) == [t |-> "int", n |-> n]
JDouble(d) == [t |-> "double", d |-> d]
JStr(s) == [t |-> "string", s |-> s]
JArr(a) == [t |-> "array", a |-> a]
JObj(k, v) == [t |-> "object", k |-> k, v |-> v]
JEmptyObj == JObj(<<>>, <<>>)
JObj1(k1, v1) == JObj(<<k1>>, <<v1>>)
JObj2(k1, v1, k2, v2) == JObj(<<k1, k2>>, <<v1, v2>>)
JObj3(k1, v1, k2, v2, k3, v3) == JObj(<<k1, k2, k3>>, <<v1, v2, v3>>)

is_undefined(j) == j.t = "undefined"
is_null(j) == j.t = "null"
is_bool(j) == j.t = "bool"
is_string(j) == j.t = "string"
is_array(j) == j.t = "array"
is_object(j) == j.t = "object"
is_integer(j) == j.t = "int"
is_number(j) == j.t \in {"int", "double"}

has(o, key) == \E i \in 1..Len(o.k) : o.k[i] = key
IndexOfKey(ks, key) == CHOOSE i \in 1..Len(ks) : ks[i] = key
get(o, key) == IF has(o, key) THEN o.v[IndexOfKey(o.k, key)] ELSE JUndef
get_or(o, key, alt) == IF has(o, key) THEN o.v[IndexOfKey(o.k, key)] ELSE alt
as_string_or(j, alt) == IF is_string(j) THEN j.s ELSE alt
\* to_number<double>(): the value in units of 1/Den, 0 for a non-number
to_number(j) == IF j.t = "int" THEN j.n * Den ELSE IF j.t = "double" THEN j.d ELSE 0
\* to_number<u32>(0) of a count keyword
to_u32(j) == IF j.t = "int" /\ j.n >= 0 THEN j.n
             ELSE IF j.t = "double" /\ j.d >= 0 THEN j.d \div Den ELSE 0

\* a map kept as parallel sequences of keys and values
EmptyMap == [k |-> <<>>, v |-> <<>>]
MapHas(m, key) == \E i \in 1..Len(m.k) : m.k[i] = key
MapGet(m, key) == m.v[IndexOfKey(m.k, key)]
\* HashMap::set: replaces the value of a key that is present
MapSet(m, key, val) ==
    IF MapHas(m, key)
    THEN [m EXCEPT !.v[IndexOfKey(m.k, key)] = val]
    ELSE [k |-> Append(m.k, key), v |-> Append(m.v, val)]

(***************************************************************************)
(* Decimal digits, for JsonValue::to_string and String::to_uint.           *)
(***************************************************************************)
Digit(n) == SubSeq("0123456789", n + 1, n + 1)

RECURSIVE NatToString(_)
NatToString(n) == IF n < 10 THEN Digit(n) ELSE NatToString(n \div 10) \o Digit(n % 10)

IntToString(n) == IF n < 0 THEN "-" \o NatToString(0 - n) ELSE NatToString(n)

\* a double prints as printf's %g does: the integer part alone when the value
\* is integral, else the integer part, a point and the first decimal
DoubleToString(d) ==
    LET a == IF d < 0 THEN 0 - d ELSE d
    IN (IF d < 0 THEN "-" ELSE "") \o NatToString(a \div Den)
          \o (IF a % Den = 0 THEN "" ELSE "." \o NatToString(((a % Den) * 10) \div Den))

RECURSIVE serialized(_)
RECURSIVE SerializeElems(_, _)
RECURSIVE SerializeMembers(_, _, _)
SerializeElems(a, i) ==
    IF i > Len(a) THEN ""
    ELSE serialized(a[i]) \o (IF i < Len(a) THEN "," ELSE "") \o SerializeElems(a, i + 1)
SerializeMembers(k, v, i) ==
    IF i > Len(k) THEN ""
    ELSE "\"" \o k[i] \o "\":" \o serialized(v[i])
           \o (IF i < Len(k) THEN "," ELSE "") \o SerializeMembers(k, v, i + 1)
serialized(j) ==
    CASE j.t = "undefined" -> "undefined"
      [] j.t = "null" -> "null"
      [] j.t = "bool" -> IF j.b THEN "true" ELSE "false"
      [] j.t = "int" -> IntToString(j.n)
      [] j.t = "double" -> DoubleToString(j.d)
      [] j.t = "string" -> "\"" \o j.s \o "\""
      [] j.t = "array" -> "[" \o SerializeElems(j.a, 1) \o "]"
      [] j.t = "object" -> "{" \o SerializeMembers(j.k, j.v, 1) \o "}"

\* JsonValue::to_string: a string value is returned as it is, without quotes
to_string(j) == IF is_string(j) THEN j.s ELSE serialized(j)

\* JsonValue::equals: deep equality; numbers compare by value, objects as
\* mappings whatever the order of their keys
RECURSIVE equals(_, _)
equals(x, y) ==
    CASE is_number(x) /\ is_number(y) -> to_number(x) = to_number(y)
      [] x.t # y.t -> FALSE
      [] x.t = "array" ->
            /\ Len(x.a) = Len(y.a)
            /\ \A i \in 1..Len(x.a) : equals(x.a[i], y.a[i])
      [] x.t = "object" ->
            /\ Len(x.k) = Len(y.k)
            /\ \A i \in 1..Len(x.k) : has(y, x.k[i]) /\ equals(x.v[i], get(y, x.k[i]))
      [] OTHER -> x = y

(***************************************************************************)
(* Schema nodes.                                                           *)
(***************************************************************************)
\* the value of InstanceType each subclass passes to the base constructor
InstanceType == {"Undefined", "Null", "Boolean", "Object", "Array", "Number", "String"}

\* JsonSchemaNode(parent, id, type) with every member at its initialiser
JsonSchemaNode(class, id) ==
    [ class |-> class, m_id |-> id, m_type |-> class, m_type_str |-> "",
      m_enum_items |-> <<>>, m_identified_by_pattern |-> FALSE, m_root |-> FALSE,
      m_pattern |-> "", m_ref |-> "", m_required |-> FALSE,
      m_all_of |-> <<>>, m_any_of |-> <<>>, m_one_of |-> <<>>, m_not |-> None,
      m_defs |-> EmptyMap,
      \* StringNode
      m_max_length |-> None, m_min_length |-> None, m_string_pattern |-> None,
      \* NumberNode
      m_multiple_of |-> None, m_maximum |-> None, m_exclusive_maximum |-> None,
      m_minimum |-> None, m_exclusive_minimum |-> None,
      \* BooleanNode
      m_value |-> None,
      \* ObjectNode
      m_properties |-> EmptyMap, m_pattern_properties |-> <<>>,
      m_max_properties |-> None, m_min_properties |-> 0, m_required_names |-> <<>>,
      m_dependent_required |-> EmptyMap, m_dependent_schemas |-> EmptyMap,
      m_additional_properties |-> None, m_property_names |-> None,
      \* ArrayNode
      m_items |-> <<>>, m_contains |-> None, m_additional_items |-> None,
      m_items_is_array |-> FALSE, m_max_items |-> None, m_min_items |-> 0,
      m_unique_items |-> FALSE ]

StringNode(id) == JsonSchemaNode("String", id)
NumberNode(id) == JsonSchemaNode("Number", id)
NullNode(id) == JsonSchemaNode("Null", id)
UndefinedNode == JsonSchemaNode("Undefined", "")
ArrayNode(id) == JsonSchemaNode("Array", id)
\* BooleanNode(parent, id) and BooleanNode(parent, id, value)
BooleanNode(id) == JsonSchemaNode("Boolean", id)
BooleanNodeValue(id, value) == [JsonSchemaNode("Boolean", id) EXCEPT !.m_value = Some(value)]
\* an ObjectNode is born with the literal-true schema as additionalProperties
ObjectNode(id) ==
    [JsonSchemaNode("Object", id) EXCEPT
        !.m_additional_properties = Some(BooleanNodeValue("", TRUE))]

(***************************************************************************)
(* A pointer to a node is the sequence of slots that leads to it from the  *)
(* root; a slot names the owning member and the position in it.            *)
(***************************************************************************)
Slot(member, i) == [member |-> member, i |-> i]

SlotsOfSeq(member, seq) == [i \in 1..Len(seq) |-> Slot(member, i)]

\* the owned children of a node, in the order resolve_reference visits them
BaseChildren(n) ==
    SlotsOfSeq("not", n.m_not) \o SlotsOfSeq("$defs", n.m_defs.v)
      \o SlotsOfSeq("allOf", n.m_all_of) \o SlotsOfSeq("anyOf", n.m_any_of)
      \o SlotsOfSeq("oneOf", n.m_one_of)
ObjectChildren(n) ==
    SlotsOfSeq("properties", n.m_properties.v)
      \o SlotsOfSeq("patternProperties", n.m_pattern_properties)
      \o SlotsOfSeq("dependentSchemas", n.m_dependent_schemas.v)
      \o SlotsOfSeq("additionalProperties", n.m_additional_properties)
ArrayChildren(n) ==
    SlotsOfSeq("items", n.m_items) \o SlotsOfSeq("additionalItems", n.m_additional_items)
      \o SlotsOfSeq("contains", n.m_contains)

\* the owning member of a node, as a sequence of children
MemberSeq(n, member) ==
    CASE member = "not" -> n.m_not
      [] member = "$defs" -> n.m_defs.v
      [] member = "allOf" -> n.m_all_of
      [] member = "anyOf" -> n.m_any_of
      [] member = "oneOf" -> n.m_one_of
      [] member = "properties" -> n.m_properties.v
      [] member = "patternProperties" -> n.m_pattern_properties
      [] member = "dependentSchemas" -> n.m_dependent_schemas.v
      [] member = "additionalProperties" -> n.m_additional_properties
      [] member = "propertyNames" -> n.m_property_names
      [] member = "items" -> n.m_items
      [] member = "additionalItems" -> n.m_additional_items
      [] member = "contains" -> n.m_contains

ChildAt(n, s) == MemberSeq(n, s.member)[s.i]

RECURSIVE NodeAt(_, _)
NodeAt(n, path) == IF path = <<>> THEN n ELSE NodeAt(ChildAt(n, Head(path)), Tail(path))

(***************************************************************************)
(* Parser: the schema compiler.  Every compile step returns what it built  *)
(* together with the parser errors it added, in order.                     *)
(***************************************************************************)
Built(nodes, errs) == [nodes |-> nodes, errs |-> errs]

\* JsonSchemaNode::append_enum_item: an item equal to an earlier one is dropped
append_enum_item(items, enum_item) ==
    IF \E i \in 1..Len(items) : equals(enum_item, items[i]) THEN items
    ELSE Append(items, enum_item)

RECURSIVE AppendEnumItems(_, _, _)
AppendEnumItems(items, vals, i) ==
    IF i > Len(vals) THEN items
    ELSE AppendEnumItems(append_enum_item(items, vals[i]), vals, i + 1)

\* the enum keyword: every entry is appended as a literal
CompileEnum(o) ==
    LET e == get(o, "enum")
    IN IF is_array(e) THEN AppendEnumItems(<<>>, e.a, 1) ELSE <<>>

\* replace(str, regex, replacement) for a regex "%(xx|XX)", given as the set
\* of the texts it matches: every match, left to right
RECURSIVE replace(_, _, _)
replace(str, codes, replacement) ==
    IF Len(str) < 3 THEN str
    ELSE IF SubSeq(str, 1, 3) \in codes
    THEN replacement \o replace(SubSeq(str, 4, Len(str)), codes, replacement)
    ELSE SubSeq(str, 1, 1) \o replace(SubSeq(str, 2, Len(str)), codes, replacement)

\* the octets the loop of set_ref replaces, in the order of the loop, for the
\* octets the refs of the model use: 0x25 '%', 0x2F '/', 0x6E 'n', 0x7E '~'
PercentOctets ==
    << [codes |-> {"%25"}, c |-> "%"],
       [codes |-> {"%2f", "%2F"}, c |-> "~1"],
       [codes |-> {"%6e", "%6E"}, c |-> "n"],
       [codes |-> {"%7e", "%7E"}, c |-> "~0"] >>

RECURSIVE DecodeFrom(_, _)
DecodeFrom(ref, i) ==
    IF i > Len(PercentOctets) THEN ref
    ELSE DecodeFrom(replace(ref, PercentOctets[i].codes, PercentOctets[i].c), i + 1)

\* JsonSchemaNode::set_ref: a ref that contains "%" is percent-decoded
set_ref(ref) ==
    IF \E i \in 1..Len(ref) : SubSeq(ref, i, i) = "%" THEN DecodeFrom(ref, 1) ELSE ref

\* the Number branch of get_typed_node
NumberFields(node, o) ==
    LET multiple == to_number(get(o, "multipleOf"))
    IN [node EXCEPT
          !.m_minimum = IF has(o, "minimum") THEN Some(to_number(get(o, "minimum"))) ELSE None,
          !.m_maximum = IF has(o, "maximum") THEN Some(to_number(get(o, "maximum"))) ELSE None,
          !.m_exclusive_minimum =
              IF has(o, "exclusiveMinimum") THEN Some(to_number(get(o, "exclusiveMinimum")))
              ELSE None,
          !.m_exclusive_maximum =
              IF has(o, "exclusiveMaximum") THEN Some(to_number(get(o, "exclusiveMaximum")))
              ELSE None,
          !.m_multiple_of =
              IF has(o, "multipleOf") /\ multiple > 0 THEN Some(multiple) ELSE None]

\* the String branch of get_typed_node
StringFields(node, o) ==
    LET pattern == get(o, "pattern")
        minLength == get(o, "minLength")
        maxLength == get(o, "maxLength")
        unsigned(j) == j.t = "int" /\ j.n >= 0
        n1 == IF is_string(pattern) THEN [node EXCEPT !.m_string_pattern = Some(pattern.s)]
              ELSE node
        n2 == IF unsigned(minLength) THEN [n1 EXCEPT !.m_min_length = Some(minLength.n)]
              ELSE n1
        n3 == IF unsigned(maxLength) THEN [n2 EXCEPT !.m_max_length = Some(maxLength.n)]
              ELSE n2
    IN Built(n3,
             (IF ~is_undefined(pattern) /\ ~is_string(pattern)
              THEN <<"pattern value is not a json string">> ELSE <<>>)
             \o (IF ~is_undefined(minLength) /\ ~unsigned(minLength)
                 THEN <<"minLength value is not a non-negative integer">> ELSE <<>>)
             \o (IF ~is_undefined(maxLength) /\ ~unsigned(maxLength)
                 THEN <<"maxLength value is not a non-negative integer">> ELSE <<>>))

\* the loop over "required" in the Object branch: sets the flag of each
\* declared property named and records the name
RECURSIVE RequiredLoop(_, _, _)
RequiredLoop(node, vals, i) ==
    IF i > Len(vals) THEN Built(node, <<>>)
    ELSE IF ~is_string(vals[i])
    THEN With(RequiredLoop(node, vals, i + 1),
              LAMBDA r : Built(r.nodes, <<"required value is not string">> \o r.errs))
    ELSE LET name == vals[i].s
             props == node.m_properties
             flagged ==
                 [props EXCEPT !.v =
                     [j \in 1..Len(props.v) |->
                         IF props.k[j] = name THEN [props.v[j] EXCEPT !.m_required = TRUE]
                         ELSE props.v[j]]]
             names == IF \E j \in 1..Len(node.m_required_names) :
                             node.m_required_names[j] = name
                      THEN node.m_required_names
                      ELSE Append(node.m_required_names, name)
         IN With([node EXCEPT !.m_properties = flagged, !.m_required_names = names],
                 LAMBDA marked : RequiredLoop(marked, vals, i + 1))

\* the inner loop of "dependentRequired": the names of one entry
RECURSIVE DependencyLoop(_, _)
DependencyLoop(vals, i) ==
    IF i > Len(vals) THEN Built(<<>>, <<>>)
    ELSE With(DependencyLoop(vals, i + 1), LAMBDA r :
           IF ~is_string(vals[i])
           THEN Built(r.nodes, <<"dependentRequired dependency value is not string">> \o r.errs)
           ELSE Built((IF \E j \in 1..Len(r.nodes) : r.nodes[j] = vals[i].s THEN <<>>
                       ELSE <<vals[i].s>>) \o r.nodes, r.errs))

RECURSIVE DependentRequiredLoop(_, _, _)
DependentRequiredLoop(map, o, i) ==
    IF i > Len(o.k) THEN Built(map, <<>>)
    ELSE With(IF is_array(o.v[i]) THEN DependencyLoop(o.v[i].a, 1)
              ELSE Built(<<>>, <<"dependentRequired item is not a json array">>),
           LAMBDA d :
             With(MapSet(map, o.k[i], d.nodes), LAMBDA set :
               With(DependentRequiredLoop(set, o, i + 1), LAMBDA r :
                 Built(r.nodes, d.errs \o r.errs))))

RECURSIVE get_typed_node(_)
RECURSIVE CompileEach(_, _)
RECURSIVE CompileMembers(_, _, _)
RECURSIVE CompilePatternMembers(_, _)

\* compiles the values in order and keeps the nodes that were built
CompileEach(vals, i) ==
    IF i > Len(vals) THEN Built(<<>>, <<>>)
    ELSE With2(get_typed_node(vals[i]), CompileEach(vals, i + 1),
               LAMBDA c, r : Built(c.nodes \o r.nodes, c.errs \o r.errs))

\* compiles the members of an object into a map from name to node
CompileMembers(map, o, i) ==
    IF i > Len(o.k) THEN Built(map, <<>>)
    ELSE With(get_typed_node(o.v[i]), LAMBDA c :
           With(IF has_value(c.nodes) THEN MapSet(map, o.k[i], c.nodes[1]) ELSE map,
                LAMBDA set :
                  With(CompileMembers(set, o, i + 1), LAMBDA r :
                    Built(r.nodes, c.errs \o r.errs))))

\* the loop over "patternProperties": the key becomes the child's pattern
CompilePatternMembers(o, i) ==
    IF i > Len(o.k) THEN Built(<<>>, <<>>)
    ELSE With(CompilePatternMembers(o, i + 1), LAMBDA r :
           IF ~is_object(o.v[i])
           THEN Built(r.nodes, <<"patternProperty element is not a json object">> \o r.errs)
           ELSE With(get_typed_node(o.v[i]), LAMBDA c :
                  Built([j \in 1..Len(c.nodes) |-> [c.nodes[j] EXCEPT !.m_pattern = o.k[i]]]
                          \o r.nodes, c.errs \o r.errs)))

\* Parser::parse_sub_schema of Parser.cpp: the list under allOf, anyOf, oneOf
parse_sub_schema(property, json_object) ==
    IF ~has(json_object, property) THEN Built(<<>>, <<>>)
    ELSE LET property_value == get_or(json_object, property, JArr(<<>>))
         IN IF ~is_array(property_value)
            THEN Built(<<>>, <<"items value is not a json array">>)
            ELSE CompileEach(property_value.a, 1)

\* the $defs keyword: each member is compiled into the defs map of the node
CompileDefs(json_object) ==
    LET defs == get(json_object, "$defs")
    IN IF is_undefined(defs) THEN Built(EmptyMap, <<>>)
       ELSE IF ~is_object(defs) THEN Built(EmptyMap, <<"$defs value is not a json object">>)
       ELSE CompileMembers(EmptyMap, defs, 1)

\* the Array branch of get_typed_node
ArrayFields(node, o) ==
    LET min_items == get(o, "minItems")
        max_items == get(o, "maxItems")
        items == get_or(o, "items", JEmptyObj)
    IN With([additional |-> IF has(o, "additionalItems")
                            THEN get_typed_node(get(o, "additionalItems"))
                            ELSE Built(None, <<>>),
             contains |-> IF has(o, "contains")
                          THEN get_typed_node(get(o, "contains")) ELSE Built(None, <<>>),
             compiled |-> IF ~has(o, "items") THEN Built(<<>>, <<>>)
                          ELSE IF is_array(items) THEN CompileEach(items.a, 1)
                          ELSE IF is_object(items) \/ is_bool(items) THEN get_typed_node(items)
                          ELSE Built(<<>>, <<"items value is not a json object/array/bool">>)],
          LAMBDA c :
            Built([node EXCEPT
                     !.m_min_items = IF is_number(min_items) THEN to_u32(min_items) ELSE 0,
                     !.m_max_items =
                         IF is_number(max_items) THEN Some(to_u32(max_items)) ELSE None,
                     !.m_unique_items = has(o, "uniqueItems"),
                     !.m_additional_items = c.additional.nodes,
                     !.m_contains = c.contains.nodes,
                     !.m_items_is_array = has(o, "items") /\ is_array(items),
                     !.m_items = c.compiled.nodes],
                  c.additional.errs \o c.contains.errs \o c.compiled.errs))

\* the Object branch of get_typed_node
ObjectFields(node, o) ==
    LET properties == get_or(o, "properties", JEmptyObj)
        min_properties == get(o, "minProperties")
        max_properties == get(o, "maxProperties")
        pattern_properties == get_or(o, "patternProperties", JEmptyObj)
        additional_properties == get(o, "additionalProperties")
        required == get_or(o, "required", JArr(<<>>))
        dependent_required == get(o, "dependentRequired")
        dependent_schemas == get(o, "dependentSchemas")
    IN With([props |-> IF ~is_object(properties)
                       THEN Built(EmptyMap, <<"properties value is not a json object">>)
                       ELSE CompileMembers(EmptyMap, properties, 1),
             \* the test the code makes here is on properties
             patterns |-> IF ~is_object(properties)
                          THEN Built(<<>>, <<"patternProperties value is not a json object">>)
                          ELSE CompilePatternMembers(pattern_properties, 1),
             additional |-> IF ~is_undefined(additional_properties)
                            THEN get_typed_node(additional_properties)
                            ELSE Built(None, <<>>),
             depreq |-> IF is_undefined(dependent_required) THEN Built(EmptyMap, <<>>)
                        ELSE IF ~is_object(dependent_required)
                        THEN Built(EmptyMap,
                                   <<"dependentRequired value is not a json object">>)
                        ELSE DependentRequiredLoop(EmptyMap, dependent_required, 1),
             depsch |-> IF is_undefined(dependent_schemas) THEN Built(EmptyMap, <<>>)
                        ELSE IF ~is_object(dependent_schemas)
                        THEN Built(EmptyMap, <<"dependentSchemas value is not a json object">>)
                        ELSE CompileMembers(EmptyMap, dependent_schemas, 1)],
          LAMBDA c :
            With([node EXCEPT
                    !.m_properties = c.props.nodes,
                    !.m_min_properties =
                        IF is_number(min_properties) THEN to_u32(min_properties) ELSE 0,
                    !.m_max_properties =
                        IF is_number(max_properties) THEN Some(to_u32(max_properties))
                        ELSE None,
                    !.m_pattern_properties = c.patterns.nodes,
                    !.m_additional_properties =
                        IF has_value(c.additional.nodes) THEN c.additional.nodes ELSE @],
                 LAMBDA n1 :
                   With(IF ~is_array(required)
                        THEN Built(n1, <<"required value is not a json array">>)
                        ELSE RequiredLoop(n1, required.a, 1),
                        LAMBDA req :
                          Built([req.nodes EXCEPT
                                   !.m_dependent_required = c.depreq.nodes,
                                   !.m_dependent_schemas = c.depsch.nodes],
                                c.props.errs \o c.patterns.errs \o c.additional.errs
                                  \o req.errs \o c.depreq.errs \o c.depsch.errs))))

NumberKeywords == {"minimum", "maximum", "exclusiveMinimum", "exclusiveMaximum", "multipleOf"}
ArrayKeywords == {"items", "unevaluatedItems", "maxItems", "minItems", "uniqueItems",
                  "contains", "maxContains", "minContains"}
StringKeywords == {"maxLength", "minLength", "pattern"}
ObjectKeywords == {"properties", "additionalProperties", "patternProperties",
                   "minProperties", "maxProperties", "required", "dependentRequired",
                   "dependentSchemas"}
HasAny(o, keywords) == \E i \in 1..Len(o.k) : o.k[i] \in keywords

\* the variant an object sub-schema is given; a mutation in which additionalItems
\* selects the Array variant also without items
TypedNodeAdditionalItems(json_object) ==
    LET id == as_string_or(get(json_object, "$id"), "")
        type_str == as_string_or(get(json_object, "type"), "")
    IN IF type_str = "null" THEN Built(NullNode(""), <<>>)
       ELSE IF type_str = "boolean" THEN Built(BooleanNode(""), <<>>)
       ELSE IF type_str \in {"number", "integer"} \/ HasAny(json_object, NumberKeywords)
       THEN Built(NumberFields(NumberNode(id), json_object), <<>>)
       ELSE IF type_str = "array" \/ HasAny(json_object, ArrayKeywords \cup {"additionalItems"})
       THEN ArrayFields(ArrayNode(id), json_object)
       ELSE IF type_str = "string" \/ HasAny(json_object, StringKeywords)
       THEN StringFields(StringNode(id), json_object)
       ELSE IF Len(json_object.k) = 0 THEN Built(BooleanNodeValue("", TRUE), <<>>)
       ELSE IF type_str = "object" \/ HasAny(json_object, ObjectKeywords)
       THEN ObjectFields(ObjectNode(id), json_object)
       ELSE Built(UndefinedNode, <<>>)

\* the variant an object sub-schema is given, with its own fields populated
TypedNode(json_object) ==
    LET id == as_string_or(get(json_object, "$id"), "")
        type_str == as_string_or(get(json_object, "type"), "")
    IN IF type_str = "null" THEN Built(NullNode(""), <<>>)
       ELSE IF type_str = "boolean" THEN Built(BooleanNode(""), <<>>)
       ELSE IF type_str \in {"number", "integer"} \/ HasAny(json_object, NumberKeywords)
       THEN Built(NumberFields(NumberNode(id), json_object), <<>>)
       ELSE IF type_str = "array" \/ HasAny(json_object, ArrayKeywords)
       THEN ArrayFields(ArrayNode(id), json_object)
       ELSE IF type_str = "string" \/ HasAny(json_object, StringKeywords)
       THEN StringFields(StringNode(id), json_object)
       ELSE IF Len(json_object.k) = 0 THEN Built(BooleanNodeValue("", TRUE), <<>>)
       ELSE IF type_str = "object" \/ HasAny(json_object, ObjectKeywords)
       THEN ObjectFields(ObjectNode(id), json_object)
       ELSE Built(UndefinedNode, <<>>)

\* Parser::get_typed_node: nodes is the node built, or empty for a null OwnPtr
get_typed_node(json_value) ==
    IF is_array(json_value)
    THEN With(CompileEach(json_value.a, 1), LAMBDA items :
           Built(Some([ArrayNode("") EXCEPT !.m_items = items.nodes]), items.errs))
    ELSE IF is_bool(json_value) THEN Built(Some(BooleanNodeValue("", json_value.b)), <<>>)
    ELSE IF is_null(json_value) THEN Built(Some(NullNode("")), <<>>)
    ELSE IF is_object(json_value)
    THEN LET type == get(json_value, "type")
             ref == get(json_value, "$ref")
             not_ == get(json_value, "not")
         IN With([typed |-> TypedNode(json_value),
                  all_of |-> parse_sub_schema("allOf", json_value),
                  any_of |-> parse_sub_schema("anyOf", json_value),
                  one_of |-> parse_sub_schema("oneOf", json_value),
                  defs |-> CompileDefs(json_value),
                  not_node |-> IF ~is_undefined(not_) THEN get_typed_node(not_)
                               ELSE Built(None, <<>>)],
               LAMBDA c :
                 Built(Some([c.typed.nodes EXCEPT
                               !.m_all_of = c.all_of.nodes,
                               !.m_any_of = c.any_of.nodes,
                               !.m_one_of = c.one_of.nodes,
                               !.m_defs = c.defs.nodes,
                               !.m_ref = IF is_string(ref) /\ ref.s # "" THEN set_ref(ref.s)
                                         ELSE "",
                               !.m_type_str = as_string_or(type, ""),
                               !.m_not = c.not_node.nodes,
                               !.m_enum_items = CompileEnum(json_value)]),
                       (IF is_array(type)
                        THEN <<"multiple types for element not supported.">> ELSE <<>>)
                       \o c.typed.errs \o c.all_of.errs \o c.any_of.errs \o c.one_of.errs
                       \o c.defs.errs \o c.not_node.errs))
    ELSE Built(None, <<>>)

(***************************************************************************)
(* The reference resolver.  The three function-local statics of            *)
(* resolve_reference_handle_identifer are carried as the record flags.     *)
(***************************************************************************)
\* find_char: the 0-based index of needle at or after start, or -1
RECURSIVE find_char(_, _, _)
find_char(haystack, needle, start) ==
    IF start >= Len(haystack) THEN -1
    ELSE IF SubSeq(haystack, start + 1, start + 1) = needle THEN start
    ELSE find_char(haystack, needle, start + 1)

\* String::substring(start, length), 0-based
substring(str, start, length) == SubSeq(str, start + 1, start + length)

starts_with(str, prefix) ==
    Len(str) >= Len(prefix) /\ SubSeq(str, 1, Len(prefix)) = prefix

\* String::replace(needle, replacement, true): every occurrence, left to right
RECURSIVE replace_all(_, _, _)
replace_all(str, needle, replacement) ==
    IF Len(str) < Len(needle) THEN str
    ELSE IF SubSeq(str, 1, Len(needle)) = needle
    THEN replacement \o replace_all(SubSeq(str, Len(needle) + 1, Len(str)), needle, replacement)
    ELSE SubSeq(str, 1, 1) \o replace_all(SubSeq(str, 2, Len(str)), needle, replacement)

\* String::to_uint: ok is false for an empty string or a non-digit
RECURSIVE to_uint(_, _, _)
to_uint(str, i, acc) ==
    IF Len(str) = 0 THEN [ok |-> FALSE, value |-> 0]
    ELSE IF i > Len(str) THEN [ok |-> TRUE, value |-> acc]
    ELSE IF \E d \in 0..9 : Digit(d) = SubSeq(str, i, i)
    THEN to_uint(str, i + 1, acc * 10 + (CHOOSE d \in 0..9 : Digit(d) = SubSeq(str, i, i)))
    ELSE [ok |-> FALSE, value |-> 0]

NoFlags == [selected_defs |-> FALSE, selected_properties |-> FALSE, selected_items |-> FALSE]
Handled(node, flags) == [node |-> node, flags |-> flags]

\* JsonSchemaNode::resolve_reference_handle_identifer; this is the node at
\* path.  The anchors map of the root is never filled, so the anchor lookup
\* finds nothing.
HandleIdentifierBase(root, path, identifier, flags) ==
    LET this == NodeAt(root, path)
    IN IF identifier = "#" /\ this.m_root THEN Handled(Some(path), flags)
       ELSE IF identifier = "$defs"
       THEN Handled(Some(path), [flags EXCEPT !.selected_defs = TRUE])
       ELSE IF flags.selected_defs
       THEN Handled(IF MapHas(this.m_defs, identifier)
                    THEN Some(Append(path, Slot("$defs", IndexOfKey(this.m_defs.k, identifier))))
                    ELSE None,
                    [flags EXCEPT !.selected_defs = FALSE])
       ELSE IF this.m_id = identifier THEN Handled(Some(path), flags)
       ELSE Handled(None, flags)

\* ObjectNode::resolve_reference_handle_identifer
HandleIdentifierObject(root, path, identifier, flags) ==
    LET this == NodeAt(root, path)
    IN With(HandleIdentifierBase(root, path, identifier, flags), LAMBDA base :
         IF has_value(base.node) THEN base
         ELSE IF identifier = "properties"
         THEN Handled(Some(path), [base.flags EXCEPT !.selected_properties = TRUE])
         ELSE IF base.flags.selected_properties
         THEN Handled(IF MapHas(this.m_properties, identifier)
                      THEN Some(Append(path, Slot("properties",
                                                  IndexOfKey(this.m_properties.k, identifier))))
                      ELSE None,
                      [base.flags EXCEPT !.selected_properties = FALSE])
         ELSE Handled(None, base.flags))

\* ArrayNode::resolve_reference_handle_identifer
HandleIdentifierArray(root, path, identifier, flags) ==
    LET this == NodeAt(root, path)
        index == to_uint(identifier, 1, 0)
    IN With(HandleIdentifierBase(root, path, identifier, flags), LAMBDA base :
         IF has_value(base.node) THEN base
         ELSE IF identifier = "items"
         THEN Handled(Some(path), [base.flags EXCEPT !.selected_items = TRUE])
         ELSE IF base.flags.selected_items
         THEN Handled(IF index.ok /\ index.value < Len(this.m_items)
                      THEN Some(Append(path, Slot("items", index.value + 1)))
                      ELSE None,
                      [base.flags EXCEPT !.selected_items = FALSE])
         ELSE Handled(None, base.flags))

\* the virtual call node->resolve_reference_handle_identifer(identifier, root)
resolve_reference_handle_identifer(root, path, identifier, flags) ==
    LET class == NodeAt(root, path).class
    IN IF class = "Object" THEN HandleIdentifierObject(root, path, identifier, flags)
       ELSE IF class = "Array" THEN HandleIdentifierArray(root, path, identifier, flags)
       ELSE HandleIdentifierBase(root, path, identifier, flags)

\* the loop of JsonSchemaNode::resolve_reference(ref, root_node): node is the
\* path of the current node, last and next the scan positions
RECURSIVE ResolveLoop(_, _, _, _, _, _)
ResolveLoop(ref, root, path, last, next, flags) ==
    IF ~(next < Len(ref)) THEN Handled(Some(path), flags)
    ELSE LET found == find_char(ref, "/", last)
             next1 == IF found < 0 THEN Len(ref) ELSE found
         IN With(replace_all(replace_all(substring(ref, last, next1 - last), "~1", "/"),
                             "~0", "~"),
              LAMBDA identifier :
                With(resolve_reference_handle_identifer(root, path, identifier, flags),
                     LAMBDA h :
                       IF ~has_value(h.node) THEN h
                       ELSE ResolveLoop(ref, root, h.node[1], next1 + 1, next1, h.flags)))

\* JsonSchemaNode::resolve_reference(const String& ref, root_node)
resolve_reference(ref, root, flags) ==
    IF ref = "" THEN Handled(None, flags)
    ELSE ResolveLoop(ref, root, <<>>, 0, 0, flags)

\* the children resolve_reference(root_node) descends into, in its order
ResolveChildren(n) ==
    BaseChildren(n) \o (IF n.class = "Object" THEN ObjectChildren(n)
                        ELSE IF n.class = "Array" THEN ArrayChildren(n) ELSE <<>>)

\* the resolver pass, JsonSchemaNode::resolve_reference(root_node) and its
\* overrides: acc.refs maps the path of each node visited to its m_reference
RECURSIVE ResolvePass(_, _, _)
RECURSIVE ResolvePassChildren(_, _, _, _, _)
ResolvePass(root, path, acc) ==
    LET this == NodeAt(root, path)
    IN With(IF this.m_ref # "" THEN resolve_reference(this.m_ref, root, acc.flags)
            ELSE Handled(None, acc.flags),
         LAMBDA r :
           With2(ResolveChildren(this),
                 [refs |-> acc.refs @@ (path :> r.node), flags |-> r.flags],
                 LAMBDA slots, set : ResolvePassChildren(root, path, slots, 1, set)))
ResolvePassChildren(root, path, slots, i, acc) ==
    IF i > Len(slots) THEN acc
    ELSE With(ResolvePass(root, Append(path, slots[i]), acc),
              LAMBDA visited : ResolvePassChildren(root, path, slots, i + 1, visited))

\* JsonSchemaNode::calculate_json_pointer of the node at path: the parent is
\* the node one slot up, and "this" is recognised by the slot that holds it
RECURSIVE calculate_json_pointer(_, _)
calculate_json_pointer(root, path) ==
    IF path = <<>> THEN "#"
    ELSE LET up == SubSeq(path, 1, Len(path) - 1)
             parent == NodeAt(root, up)
             this == NodeAt(root, path)
             s == path[Len(path)]
             idx == NatToString(s.i - 1)
             held ==
                 IF parent.class = "Object"
                 THEN IF this.m_identified_by_pattern THEN "patternProperties"
                      ELSE IF s.member = "properties"
                      THEN "properties/" \o parent.m_properties.k[s.i]
                      ELSE ""
                 ELSE IF parent.class = "Array"
                 THEN IF s.member = "contains" THEN "contains"
                      ELSE IF s.member = "additionalItems" THEN "additionalItems"
                      ELSE IF s.member = "items" THEN "items/" \o idx
                      ELSE ""
                 ELSE ""
             common ==
                 IF s.member = "anyOf" THEN "anyOf/" \o idx
                 ELSE IF s.member = "allOf" THEN "allOf/" \o idx
                 ELSE IF s.member = "oneOf" THEN "oneOf/" \o idx
                 ELSE IF s.member = "not" THEN "not"
                 ELSE IF s.member = "$defs" THEN "$defs/" \o parent.m_defs.k[s.i]
                 ELSE ""
         IN calculate_json_pointer(root, up) \o "/" \o held \o common

\* every node of the tree, by path
RECURSIVE AllPaths(_, _)
AllPaths(root, path) ==
    LET this == NodeAt(root, path)
        slots == BaseChildren(this) \o ObjectChildren(this) \o ArrayChildren(this)
                   \o SlotsOfSeq("propertyNames", this.m_property_names)
    IN {path} \cup UNION {AllPaths(root, Append(path, slots[i])) : i \in 1..Len(slots)}

(***************************************************************************)
(* The state of the process.                                               *)
(***************************************************************************)
VARIABLES
    schema,            \* the JSON value last handed to Parser::run
    m_root_node,       \* Parser::m_root_node, empty before the first run
    m_reference,       \* JsonSchemaNode::m_reference of each node, by path
    m_parser_errors,   \* Parser::m_parser_errors
    parser_result,     \* what the last Parser::run returned
    statics,           \* the selected_* statics of the resolver
    instance,          \* the JSON value last handed to Validator::run
    result,            \* the ValidationResult of the last Validator::run
    cli,               \* the process of main(): its arguments, position and status
    walk               \* a call of resolve_reference(ref, root) in progress

vars == <<schema, m_root_node, m_reference, m_parser_errors, parser_result, statics,
          instance, result, cli, walk>>

(***************************************************************************)
(* The validator.  A validate call returns its boolean, the errors it      *)
(* added to the caller's ValidationError, and whether the chain of nested  *)
(* calls ran past MaxDepth.  The argument d of a call is its context: the  *)
(* number of nested calls still allowed and what the build makes of the    *)
(* conversion to u64 of a double <= -1, which is undefined.                *)
(***************************************************************************)
U64Casts == {"wrap", "zero"}
Context(depth, cast) == [depth |-> depth, cast |-> cast]
Deeper(d) == [d EXCEPT !.depth = @ - 1]

Res(ret, errs, ovf) == [ret |-> ret, errs |-> errs, ovf |-> ovf]
Pass == Res(TRUE, <<>>, FALSE)
\* valid &= r, with the errors of r added after those of acc
AndRes(acc, r) ==
    With2(acc, r, LAMBDA a, b : Res(a.ret /\ b.ret, a.errs \o b.errs, a.ovf \/ b.ovf))

\* valid &= ... over the results of the parts of a function, in their order
RECURSIVE ConcatErrs(_, _)
ConcatErrs(parts, i) ==
    IF i > Len(parts) THEN <<>> ELSE parts[i].errs \o ConcatErrs(parts, i + 1)
AllRes(parts) ==
    With(parts, LAMBDA p :
      Res(\A i \in 1..Len(p) : p[i].ret, ConcatErrs(p, 1), \E i \in 1..Len(p) : p[i].ovf))

\* an error message: the text, the node it names and the printed instance
ErrorAt(msg, path, json) == [msg |-> msg, at |-> path, json |-> to_string(json)]
TypeError(json, type) == [msg |-> "type validation failed", json |-> to_string(json),
                          type |-> type]
Fail(error) == Res(FALSE, <<error>>, FALSE)

validate_type(type, json) ==
    \/ type = "Array" /\ is_array(json)
    \/ type = "Object" /\ is_object(json)
    \/ type = "String" /\ is_string(json)
    \/ type = "Number" /\ is_number(json)
    \/ type = "Null" /\ is_null(json)
    \/ type = "Boolean"
    \/ type = "Undefined"

This(path) == NodeAt(m_root_node[1], path)

RECURSIVE validate(_, _, _)
RECURSIVE ValidateEach(_, _, _, _, _)
RECURSIVE AnyOfLoop(_, _, _, _)
RECURSIVE OneOfLoop(_, _, _, _, _)
RECURSIVE ArrayLoop(_, _, _, _, _)
RECURSIVE MemberLoop(_, _, _, _)
RECURSIVE PatternLoop(_, _, _, _, _)
RECURSIVE DependentSchemasLoop(_, _, _, _)

\* for (auto& item : member) valid &= item.validate(json, e), from child i on
ValidateEach(path, member, i, json, d) ==
    IF i > Len(MemberSeq(This(path), member)) THEN Pass
    ELSE AndRes(validate(Append(path, Slot(member, i)), json, d),
                ValidateEach(path, member, i + 1, json, d))

\* the allOf part of JsonSchemaNode::validate
AllOfPart(path, json, d) == ValidateEach(path, "allOf", 1, json, d)

\* m_reference of the node at path: null unless the resolver pass set it
reference(path) == IF path \in DOMAIN m_reference THEN m_reference[path] ELSE None

\* if (m_reference) valid &= m_reference->validate(json, e)
ReferencePart(path, json, d) ==
    IF has_value(reference(path)) THEN validate(reference(path)[1], json, d) ELSE Pass

\* the anyOf loop with any = item.validate(...) in place of any |= ...
AnyOfLoopLastWins(path, i, json, d) ==
    IF i > Len(This(path).m_any_of) THEN Res(FALSE, <<>>, FALSE)
    ELSE With2(validate(Append(path, Slot("anyOf", i)), json, d),
               AnyOfLoop(path, i + 1, json, d),
               LAMBDA r, rest :
                 Res(IF i = Len(This(path).m_any_of) THEN r.ret ELSE rest.ret,
                     r.errs \o rest.errs, r.ovf \/ rest.ovf))

\* the loop of the anyOf part: any |= item.validate(json, any_of_errors)
AnyOfLoop(path, i, json, d) ==
    IF i > Len(This(path).m_any_of) THEN Res(FALSE, <<>>, FALSE)
    ELSE With2(validate(Append(path, Slot("anyOf", i)), json, d),
               AnyOfLoop(path, i + 1, json, d),
               LAMBDA r, rest :
                 Res(r.ret \/ rest.ret, r.errs \o rest.errs, r.ovf \/ rest.ovf))

\* the anyOf part; a mutation that hands the children's errors to the caller
AnyOfPartChildErrors(path, json, d) ==
    IF Len(This(path).m_any_of) = 0 THEN Pass
    ELSE With(AnyOfLoop(path, 1, json, d), LAMBDA any :
           Res(any.ret,
               any.errs \o (IF ~any.ret THEN <<ErrorAt("not item matched in anyOf", path, json)>>
                            ELSE <<>>),
               any.ovf))

\* the anyOf part: the children's errors stay in any_of_errors
AnyOfPart(path, json, d) ==
    IF Len(This(path).m_any_of) = 0 THEN Pass
    ELSE With(AnyOfLoop(path, 1, json, d), LAMBDA any :
           Res(any.ret,
               IF ~any.ret THEN <<ErrorAt("not item matched in anyOf", path, json)>>
               ELSE <<>>,
               any.ovf))

\* the not part without the negation
NotPartNotNegated(path, json, d) ==
    IF ~has_value(This(path).m_not) THEN Pass
    ELSE With(validate(Append(path, Slot("not", 1)), json, d), LAMBDA r :
           Res(r.ret, IF ~r.ret THEN r.errs ELSE <<>>, r.ovf))

\* the not part: the errors of the child are passed on when the child validates
NotPart(path, json, d) ==
    IF ~has_value(This(path).m_not) THEN Pass
    ELSE With(validate(Append(path, Slot("not", 1)), json, d), LAMBDA r :
           LET item_valid == ~r.ret
           IN Res(item_valid, IF ~item_valid THEN r.errs ELSE <<>>, r.ovf))

\* the oneOf loop without the break: a third match sets the flag again
OneOfLoopNoBreak(path, i, one, json, d) ==
    IF i > Len(This(path).m_one_of) THEN Res(one, <<>>, FALSE)
    ELSE With(validate(Append(path, Slot("oneOf", i)), json, d), LAMBDA r :
           With(OneOfLoop(path, i + 1, IF r.ret THEN ~one ELSE one, json, d), LAMBDA rest :
             Res(rest.ret, <<>>, r.ovf \/ rest.ovf)))

\* the loop of the oneOf part, from child i on with the flag one
OneOfLoop(path, i, one, json, d) ==
    IF i > Len(This(path).m_one_of) THEN Res(one, <<>>, FALSE)
    ELSE With(validate(Append(path, Slot("oneOf", i)), json, d), LAMBDA r :
           IF ~one /\ r.ret
           THEN With(OneOfLoop(path, i + 1, TRUE, json, d), LAMBDA rest :
                  Res(rest.ret, <<>>, r.ovf \/ rest.ovf))
           ELSE IF one /\ r.ret THEN Res(FALSE, <<>>, r.ovf)
           ELSE With(OneOfLoop(path, i + 1, one, json, d), LAMBDA rest :
                  Res(rest.ret, <<>>, r.ovf \/ rest.ovf)))

\* the oneOf part
OneOfPart(path, json, d) ==
    IF Len(This(path).m_one_of) = 0 THEN Pass
    ELSE With(OneOfLoop(path, 1, FALSE, json, d), LAMBDA one :
           Res(one.ret,
               IF ~one.ret THEN <<ErrorAt("not one item matched in oneOf", path, json)>>
               ELSE <<>>,
               one.ovf))

\* the enum part
EnumPart(path, json) ==
    LET items == This(path).m_enum_items
        enum_matched == \E i \in 1..Len(items) : equals(items[i], json)
    IN IF Len(items) = 0 \/ enum_matched THEN Pass
       ELSE Fail(ErrorAt("No enum matched", path, json))

\* Parser::parse_sub_schema("$defs", ...) as the validator calls it on an
\* object instance: false when the $defs the instance carries is ill-formed
DefsWellFormed(json) ==
    LET defs == get(json, "$defs")
    IN is_undefined(defs) \/ (is_object(defs) /\ CompileDefs(json).errs = <<>>)

\* the $defs part, for an object instance
DefsPart(path, json) ==
    IF is_object(json) /\ ~DefsWellFormed(json)
    THEN Fail(ErrorAt("Subschema in $defs not valid", path, json))
    ELSE Pass

\* JsonSchemaNode::validate
JsonSchemaNodeValidate(path, json, d) ==
    LET this == This(path)
    IN IF this.m_type_str # "" /\ ~validate_type(this.m_type, json)
       THEN Fail(TypeError(json, this.m_type))
       ELSE IF this.m_required /\ is_undefined(json)
       THEN Fail(ErrorAt("item is required, but is not present", path, json))
       ELSE AllRes(<<AllOfPart(path, json, d),
                     ReferencePart(path, json, d),
                     AnyOfPart(path, json, d),
                     NotPart(path, json, d),
                     OneOfPart(path, json, d),
                     EnumPart(path, json),
                     DefsPart(path, json)>>)

\* regexec of a pattern compiled with REG_EXTENDED, for the patterns the
\* model uses: "^.*$", "^" followed by literal text, or literal text
RECURSIVE ContainsAt(_, _, _)
ContainsAt(value, text, i) ==
    IF i + Len(text) - 1 > Len(value) THEN FALSE
    ELSE IF SubSeq(value, i, i + Len(text) - 1) = text THEN TRUE
    ELSE ContainsAt(value, text, i + 1)

match_against_pattern(pattern, value) ==
    IF pattern = "^.*$" THEN TRUE
    ELSE IF starts_with(pattern, "^")
    THEN starts_with(value, SubSeq(pattern, 2, Len(pattern)))
    ELSE ContainsAt(value, pattern, 1)

\* one keyword check of a variant: an error when the check fails
Check(ok, error) == IF ok THEN Pass ELSE Fail(error)

\* StringNode::validate
StringNodeValidate(path, json, d) ==
    LET this == This(path)
        valid == JsonSchemaNodeValidate(path, json, d)
    IN IF ~is_string(json) THEN valid
       ELSE AllRes(<<valid,
              Check(has_value(this.m_string_pattern)
                       => match_against_pattern(this.m_string_pattern[1], json.s),
                    ErrorAt("String pattern not matching", path, json)),
              Check(has_value(this.m_max_length) => ~(Len(json.s) > this.m_max_length[1]),
                    ErrorAt("maxLenght violation", path, json)),
              Check(has_value(this.m_min_length) => ~(Len(json.s) < this.m_min_length[1]),
                    ErrorAt("minLenght violation", path, json))>>)

\* (u64)result for result = x / k with k > 0: the conversion truncates; of a
\* value <= -1 it is undefined, and a build either wraps modulo 2^64 (wrapped
\* is then true and value is the offset from 2^64) or yields 0
U64Cast(x, k, cast) ==
    IF x >= 0 THEN [wrapped |-> FALSE, value |-> x \div k]
    ELSE IF 0 - x < k THEN [wrapped |-> FALSE, value |-> 0]
    ELSE IF cast = "wrap" THEN [wrapped |-> TRUE, value |-> 0 - ((0 - x) \div k)]
    ELSE [wrapped |-> FALSE, value |-> 0]

\* (result - (u64)result) != 0 for result = x / k
MultipleOfRemainder(x, k, cast) ==
    LET u == U64Cast(x, k, cast)
    IN u.wrapped \/ x # u.value * k

\* the integer check of NumberNode::validate
IntegerPart(path, json) ==
    Check(~(This(path).m_type_str = "integer" /\ ~is_integer(json)),
          ErrorAt("Number is not an integer value", path, json))

\* the minimum check with <= in place of <
MinimumPartExclusive(path, json) ==
    LET this == This(path)
    IN Check(~(has_value(this.m_minimum) /\ to_number(json) <= this.m_minimum[1]),
             ErrorAt("Minimum invalid", path, json))

\* the four bound checks of NumberNode::validate
MinimumPart(path, json) ==
    LET this == This(path)
    IN Check(~(has_value(this.m_minimum) /\ to_number(json) < this.m_minimum[1]),
             ErrorAt("Minimum invalid", path, json))
MaximumPart(path, json) ==
    LET this == This(path)
    IN Check(~(has_value(this.m_maximum) /\ to_number(json) > this.m_maximum[1]),
             ErrorAt("Maximum invalid", path, json))
ExclusiveMinimumPart(path, json) ==
    LET this == This(path)
    IN Check(~(has_value(this.m_exclusive_minimum)
                 /\ to_number(json) <= this.m_exclusive_minimum[1]),
             ErrorAt("exclusiveMinimum invalid", path, json))
ExclusiveMaximumPart(path, json) ==
    LET this == This(path)
    IN Check(~(has_value(this.m_exclusive_maximum)
                 /\ to_number(json) >= this.m_exclusive_maximum[1]),
             ErrorAt("exclusiveMaximum invalid", path, json))

\* the multipleOf check of NumberNode::validate
MultipleOfPart(path, json, d) ==
    LET this == This(path)
    IN Check(~(has_value(this.m_multiple_of)
                 /\ MultipleOfRemainder(to_number(json), this.m_multiple_of[1], d.cast)),
             ErrorAt("multipleOf invalid", path, json))

\* NumberNode::validate
NumberNodeValidate(path, json, d) ==
    LET valid == JsonSchemaNodeValidate(path, json, d)
    IN IF ~is_number(json) THEN valid
       ELSE AllRes(<<valid,
                     IntegerPart(path, json),
                     MinimumPart(path, json),
                     MaximumPart(path, json),
                     ExclusiveMinimumPart(path, json),
                     ExclusiveMaximumPart(path, json),
                     MultipleOfPart(path, json, d)>>)

\* BooleanNode::validate
BooleanNodeValidate(path, json) ==
    LET this == This(path)
    IN IF has_value(this.m_value) THEN Res(this.m_value[1], <<>>, FALSE)
       ELSE Res(is_bool(json), <<>>, FALSE)

\* one error for each element of names (from i on) the object does not have
RECURSIVE MissingNames(_, _, _, _, _)
MissingNames(names, i, msg, path, json) ==
    IF i > Len(names) THEN Pass
    ELSE AndRes(Check(has(json, names[i]), ErrorAt(msg, path, json)),
                MissingNames(names, i + 1, msg, path, json))

\* the dependentRequired loop of ObjectNode::validate
RECURSIVE DependentRequiredPart(_, _, _)
DependentRequiredPart(path, i, json) ==
    LET map == This(path).m_dependent_required
    IN IF i > Len(map.k) THEN Pass
       ELSE AndRes(IF has(json, map.k[i])
                   THEN MissingNames(map.v[i], 1, "dependentRequired dependency not found",
                                     path, json)
                   ELSE Pass,
                   DependentRequiredPart(path, i + 1, json))

\* a child validated with an error of the parent added when it fails
ValidateWithError(child, value, d, error) ==
    With(validate(child, value, d), LAMBDA r :
      Res(r.ret, r.errs \o (IF ~r.ret THEN <<error>> ELSE <<>>), r.ovf))

\* the dependentSchemas loop of ObjectNode::validate
DependentSchemasLoop(path, i, json, d) ==
    LET map == This(path).m_dependent_schemas
    IN IF i > Len(map.k) THEN Pass
       ELSE AndRes(IF has(json, map.k[i])
                   THEN ValidateWithError(Append(path, Slot("dependentSchemas", i)), json, d,
                                          ErrorAt("dependentSchema not valid", path, json))
                   ELSE Pass,
                   DependentSchemasLoop(path, i + 1, json, d))

\* the loop over pattern properties for one member: matched tells whether a
\* pattern matched the key
PatternLoop(path, i, key, value, d) ==
    LET patterns == This(path).m_pattern_properties
    IN IF i > Len(patterns) THEN [matched |-> FALSE, res |-> Pass]
       ELSE With(PatternLoop(path, i + 1, key, value, d), LAMBDA rest :
              IF match_against_pattern(patterns[i].m_pattern, key)
              THEN [matched |-> TRUE,
                    res |-> AndRes(validate(Append(path, Slot("patternProperties", i)),
                                            value, d), rest.res)]
              ELSE rest)

\* the body of for_each_member; a mutation that hands every member outside
\* properties to additional_properties, whether or not a pattern matched
MemberLoopMatchIgnored(path, i, json, d) ==
    IF i > Len(json.k) THEN Pass
    ELSE LET this == This(path)
             key == json.k[i]
             value == json.v[i]
             member ==
                 IF MapHas(this.m_properties, key)
                 THEN validate(Append(path, Slot("properties",
                                                 IndexOfKey(this.m_properties.k, key))),
                               value, d)
                 ELSE With(PatternLoop(path, 1, key, value, d), LAMBDA patterns :
                        AndRes(patterns.res,
                          IF FALSE THEN Pass
                          ELSE IF has_value(this.m_additional_properties)
                          THEN ValidateWithError(
                                   Append(path, Slot("additionalProperties", 1)), value, d,
                                   ErrorAt("additionalProperty not valid", path, json))
                          ELSE Fail(ErrorAt("property not in schema definition", path, json))))
             names ==
                 IF has_value(this.m_property_names)
                 THEN ValidateWithError(Append(path, Slot("propertyNames", 1)), JStr(key), d,
                                        ErrorAt("propertyNames not valid", path, json))
                 ELSE Pass
         IN AndRes(AndRes(member, names), MemberLoop(path, i + 1, json, d))

\* the body of for_each_member for member i of the instance, and the rest
MemberLoop(path, i, json, d) ==
    IF i > Len(json.k) THEN Pass
    ELSE LET this == This(path)
             key == json.k[i]
             value == json.v[i]
             member ==
                 IF MapHas(this.m_properties, key)
                 THEN validate(Append(path, Slot("properties",
                                                 IndexOfKey(this.m_properties.k, key))),
                               value, d)
                 ELSE With(PatternLoop(path, 1, key, value, d), LAMBDA patterns :
                        AndRes(patterns.res,
                          IF patterns.matched THEN Pass
                          ELSE IF has_value(this.m_additional_properties)
                          THEN ValidateWithError(
                                   Append(path, Slot("additionalProperties", 1)), value, d,
                                   ErrorAt("additionalProperty not valid", path, json))
                          ELSE Fail(ErrorAt("property not in schema definition", path, json))))
             names ==
                 IF has_value(this.m_property_names)
                 THEN ValidateWithError(Append(path, Slot("propertyNames", 1)), JStr(key), d,
                                        ErrorAt("propertyNames not valid", path, json))
                 ELSE Pass
         IN AndRes(AndRes(member, names), MemberLoop(path, i + 1, json, d))

\* ObjectNode::validate
ObjectNodeValidate(path, json, d) ==
    LET this == This(path)
        valid == JsonSchemaNodeValidate(path, json, d)
    IN IF ~is_object(json) THEN valid
       ELSE AllRes(<<valid,
              Check(~(this.m_min_properties # 0 /\ Len(json.k) < this.m_min_properties),
                    ErrorAt("minProperties value not met", path, json)),
              Check(~(has_value(this.m_max_properties)
                        /\ Len(json.k) > this.m_max_properties[1]),
                    ErrorAt("maxProperties value not met", path, json)),
              MissingNames(this.m_required_names, 1, "required value not found", path, json),
              DependentRequiredPart(path, 1, json),
              DependentSchemasLoop(path, 1, json, d),
              MemberLoop(path, 1, json, d)>>)

\* String::hash of the printed element; the model takes the hash of two
\* different strings to differ
hash(str) == str

\* the loop of ArrayNode::validate; a mutation that leaves the elements past
\* the items of a tuple to nothing, also when additional_items is set
ArrayLoopNoAdditional(path, i, json, d, st) ==
    IF i > Len(json.a) THEN st
    ELSE LET this == This(path)
             value == json.a[i]
             h == hash(to_string(value))
             unique == Check(~(this.m_unique_items /\ h \in st.hashes),
                             ErrorAt("uniqueItems violation with duplicate item", path, json))
             item == IF this.m_items_is_array
                     THEN IF Len(this.m_items) > i - 1
                          THEN validate(Append(path, Slot("items", i)), value, d)
                          ELSE IF FALSE
                          THEN validate(Append(path, Slot("additionalItems", 1)), value, d)
                          ELSE Pass
                     ELSE IF Len(this.m_items) # 0
                     THEN validate(Append(path, Slot("items", 1)), value, d)
                     ELSE Pass
         IN With2(IF has_value(this.m_contains) /\ ~st.contains_valid
                  THEN validate(Append(path, Slot("contains", 1)), value, d)
                  ELSE Res(st.contains_valid, <<>>, FALSE),
                  AndRes(AndRes(st.res, unique), item),
                  LAMBDA contains, res :
                    With([res |-> res,
                          hashes |-> IF this.m_unique_items THEN st.hashes \cup {h}
                                     ELSE st.hashes,
                          contains_valid |-> contains.ret,
                          contains_ovf |-> st.contains_ovf \/ contains.ovf],
                         LAMBDA next : ArrayLoop(path, i + 1, json, d, next)))

\* the loop of ArrayNode::validate from element i on: hashes holds the hashes
\* seen, contains_valid the flag of the contains child
ArrayLoop(path, i, json, d, st) ==
    IF i > Len(json.a) THEN st
    ELSE LET this == This(path)
             value == json.a[i]
             h == hash(to_string(value))
             unique == Check(~(this.m_unique_items /\ h \in st.hashes),
                             ErrorAt("uniqueItems violation with duplicate item", path, json))
             item == IF this.m_items_is_array
                     THEN IF Len(this.m_items) > i - 1
                          THEN validate(Append(path, Slot("items", i)), value, d)
                          ELSE IF has_value(this.m_additional_items)
                          THEN validate(Append(path, Slot("additionalItems", 1)), value, d)
                          ELSE Pass
                     ELSE IF Len(this.m_items) # 0
                     THEN validate(Append(path, Slot("items", 1)), value, d)
                     ELSE Pass
         IN With2(IF has_value(this.m_contains) /\ ~st.contains_valid
                  THEN validate(Append(path, Slot("contains", 1)), value, d)
                  ELSE Res(st.contains_valid, <<>>, FALSE),
                  AndRes(AndRes(st.res, unique), item),
                  LAMBDA contains, res :
                    With([res |-> res,
                          hashes |-> IF this.m_unique_items THEN st.hashes \cup {h}
                                     ELSE st.hashes,
                          contains_valid |-> contains.ret,
                          contains_ovf |-> st.contains_ovf \/ contains.ovf],
                         LAMBDA next : ArrayLoop(path, i + 1, json, d, next)))

\* ArrayNode::validate; a mutation in which contains_valid starts as true
ArrayNodeValidateContainsTrue(path, json, d) ==
    LET this == This(path)
    IN With(JsonSchemaNodeValidate(path, json, d), LAMBDA valid :
         IF ~is_array(json) THEN valid
         ELSE IF Len(json.a) < this.m_min_items
         THEN Res(FALSE, valid.errs \o <<[msg |-> "minItems violation"]>>, valid.ovf)
         ELSE IF has_value(this.m_max_items) /\ Len(json.a) > this.m_max_items[1]
         THEN Res(FALSE, valid.errs \o <<[msg |-> "maxItems violation"]>>, valid.ovf)
         ELSE With(ArrayLoop(path, 1, json, d,
                             [res |-> valid, hashes |-> {}, contains_valid |-> TRUE,
                              contains_ovf |-> FALSE]),
                   LAMBDA loop :
                     IF has_value(this.m_contains)
                     THEN AndRes(loop.res,
                            Res(loop.contains_valid,
                                IF ~loop.contains_valid
                                THEN <<ErrorAt("Array contains violation", path, json)>>
                                ELSE <<>>,
                                loop.contains_ovf))
                     ELSE loop.res))

\* ArrayNode::validate
ArrayNodeValidate(path, json, d) ==
    LET this == This(path)
    IN With(JsonSchemaNodeValidate(path, json, d), LAMBDA valid :
         IF ~is_array(json) THEN valid
         ELSE IF Len(json.a) < this.m_min_items
         THEN Res(FALSE, valid.errs \o <<[msg |-> "minItems violation"]>>, valid.ovf)
         ELSE IF has_value(this.m_max_items) /\ Len(json.a) > this.m_max_items[1]
         THEN Res(FALSE, valid.errs \o <<[msg |-> "maxItems violation"]>>, valid.ovf)
         ELSE With(ArrayLoop(path, 1, json, d,
                             [res |-> valid, hashes |-> {}, contains_valid |-> FALSE,
                              contains_ovf |-> FALSE]),
                   LAMBDA loop :
                     IF has_value(this.m_contains)
                     THEN AndRes(loop.res,
                            Res(loop.contains_valid,
                                IF ~loop.contains_valid
                                THEN <<ErrorAt("Array contains violation", path, json)>>
                                ELSE <<>>,
                                loop.contains_ovf))
                     ELSE loop.res))

\* NullNode::validate and UndefinedNode::validate: the common logic alone
NullNodeValidate(path, json, d) == JsonSchemaNodeValidate(path, json, d)
UndefinedNodeValidate(path, json, d) == JsonSchemaNodeValidate(path, json, d)

\* the virtual call node->validate(json, e), with d nested calls still allowed
validate(path, json, d) ==
    LET class == This(path).class
    IN IF d.depth = 0 THEN Res(FALSE, <<>>, TRUE)
       ELSE IF class = "String" THEN StringNodeValidate(path, json, Deeper(d))
       ELSE IF class = "Number" THEN NumberNodeValidate(path, json, Deeper(d))
       ELSE IF class = "Boolean" THEN BooleanNodeValidate(path, json)
       ELSE IF class = "Object" THEN ObjectNodeValidate(path, json, Deeper(d))
       ELSE IF class = "Array" THEN ArrayNodeValidate(path, json, Deeper(d))
       ELSE IF class = "Null" THEN NullNodeValidate(path, json, Deeper(d))
       ELSE UndefinedNodeValidate(path, json, Deeper(d))

(***************************************************************************)
(* The schemas and instances the model runs the program on.                *)
(***************************************************************************)
\* all sequences over S of length 0..n
RECURSIVE SeqsUpTo(_, _)
SeqsUpTo(S, n) ==
    IF n = 0 THEN {<<>>}
    ELSE LET shorter == SeqsUpTo(S, n - 1)
         IN shorter \cup {Append(q, x) : q \in shorter, x \in S}

\* with the {"type": type} member in front unless type is ""
WithType(type, o) ==
    IF type = "" THEN o ELSE JObj(<<"type">> \o o.k, <<JStr(type)>> \o o.v)

LeafSchemas == {JBool(TRUE), JBool(FALSE)}

CombinatorKeywords == {"allOf", "anyOf", "oneOf"}

\* a combinator over literal schemas, a host of each variant that carries a
\* combinator, and combinators over sub-schemas that look at the instance
CombinatorSchemas ==
    {JObj1(keyword, JArr(kids)) :
        keyword \in CombinatorKeywords, kids \in SeqsUpTo(LeafSchemas, MaxChildren)}
    \cup {WithType(type, JObj1(keyword, JArr(<<kid>>))) :
            type \in {"boolean", "number", "string"}, keyword \in CombinatorKeywords,
            kid \in LeafSchemas}
    \cup {WithType(type, JObj1("not", kid)) :
            type \in {"", "boolean", "number"},
            kid \in LeafSchemas \cup {JObj1("maximum", JInt(1))}}
    \cup {JObj2("maximum", JInt(2), keyword,
                 JArr(<<JObj1("type", JStr("integer")), JObj1("minimum", JInt(1)),
                        JBool(TRUE)>>)) :
            keyword \in CombinatorKeywords}
    \cup {JObj2("allOf", JArr(<<JObj1("type", JStr("number")), JObj1("minimum", JInt(5))>>),
                "not", JObj1("maximum", JInt(10)))}
CombinatorInstances ==
    {JBool(TRUE), JInt(0), JInt(2), JInt(7), JInt(15), JDouble(3), JStr("5")}

\* an object with the members of o whose value is present
RECURSIVE Present(_, _)
Present(o, i) ==
    IF i > Len(o.k) THEN JEmptyObj
    ELSE LET rest == Present(o, i + 1)
         IN IF is_undefined(o.v[i]) THEN rest
            ELSE JObj(<<o.k[i]>> \o rest.k, <<o.v[i]>> \o rest.v)

BoundKeywords == <<"minimum", "exclusiveMinimum", "maximum", "exclusiveMaximum">>
BoundValues == {JUndef, JInt(1)}
NumberSchemas ==
    ({Present(JObj(BoundKeywords, <<a, b, c, e>>), 1) :
        a \in BoundValues, b \in BoundValues, c \in BoundValues, e \in BoundValues}
      \ {JEmptyObj})
    \cup {JObj1(BoundKeywords[i], JDouble(3)) : i \in 1..4}
    \cup {WithType(type, JObj1("multipleOf", k)) :
            type \in {"", "integer"}, k \in {JInt(2), JDouble(3), JInt(0), JInt(-1)}}
    \cup {JObj(<<"type", "minimum", "exclusiveMaximum", "multipleOf">>,
               <<JStr("integer"), JInt(0), JInt(10), JInt(2)>>)}
NumberInstances ==
    {JInt(n) : n \in {-4, -3, -2, 0, 1, 2, 3, 4, 10}}
      \cup {JDouble(2), JDouble(3), JDouble(9), JStr("x")}

TypeSchemas ==
    {JBool(TRUE), JBool(FALSE), JEmptyObj}
    \cup {JObj1("type", JStr(type)) :
        type \in {"null", "boolean", "number", "integer", "array", "string", "object"}}
    \cup {JObj2("type", JStr("string"), "minimum", JInt(1)),
          JObj2("type", JStr("object"), "minLength", JInt(1)),
          JObj1("type", JArr(<<JStr("string"), JStr("null")>>)),
          JObj2("type", JStr("string"), "minLength", JInt(3))}
TypeInstances ==
    {JNull, JBool(TRUE), JInt(1), JDouble(3), JStr("hi"), JStr("hey"), JArr(<<>>), JEmptyObj}

ArraySchemas ==
    {JObj1("uniqueItems", JBool(TRUE)),
     JObj1("uniqueItems", JBool(FALSE)),
     JObj3("type", JStr("array"), "uniqueItems", JBool(TRUE), "minItems", JInt(2)),
     JObj2("uniqueItems", JBool(TRUE), "maxItems", JInt(2)),
     JObj2("uniqueItems", JBool(TRUE), "items", JObj1("type", JStr("integer")))}
ArrayInstances ==
    {JArr(<<>>), JArr(<<JInt(1), JInt(1)>>), JArr(<<JInt(1), JInt(2)>>),
     JArr(<<JInt(1), JStr("1")>>), JArr(<<JBool(TRUE), JStr("true")>>),
     JArr(<<JInt(1), JDouble(Den)>>),
     JArr(<<JInt(1), JInt(2), JInt(1)>>),
     JArr(<<JObj2("a", JInt(1), "b", JInt(2)), JObj2("b", JInt(2), "a", JInt(1))>>),
     JArr(<<JObj1("a", JInt(1)), JObj1("a", JInt(2))>>),
     JStr("x")}

\* a root with $defs.<name> = {type: integer, minimum: 1} and a property n
\* that refers to it
DefNames == {"pos", "$defs", "#"}
PosSchema == JObj2("type", JStr("integer"), "minimum", JInt(1))
RefSchemas ==
    {WithType(roottype,
        JObj2("$defs", JObj1(name, PosSchema),
              "properties", JObj1("n", WithType(type,
                                    JObj1("$ref", JStr("#/$defs/" \o name)))))) :
        roottype \in {"", "object"}, type \in {"", "boolean", "number"},
        name \in DefNames}
RefInstances ==
    {JEmptyObj, JObj1("n", JInt(3)), JObj1("n", JInt(0)), JObj1("n", JStr("x")),
     JObj1("n", JBool(TRUE)), JObj1("$defs", JInt(1)), JInt(3)}

\* schemas whose $ref resolves to the node that carries it, or to a node above
CycleSchemas ==
    {JObj1("$ref", JStr("#")),
     JObj2("type", JStr("string"), "$ref", JStr("#")),
     JObj2("minimum", JInt(0), "$ref", JStr("#")),
     JObj1("properties", JObj1("n", JObj1("$ref", JStr("#"))))}
CycleInstances == {JStr("x"), JInt(1), JEmptyObj, JObj1("n", JInt(1))}

\* a root with $defs.pos and a property n whose $ref stops at "$defs", or names
\* pos without the "$defs" step, and a root with a property of each kind
StaleSchemas ==
    {JObj2("$defs", JObj1("pos", PosSchema),
           "properties", JObj1("n", JObj1("$ref", JStr(ref)))) :
        ref \in {"#/$defs", "#/pos"}}
    \cup {JObj2("$defs", JObj1("pos", PosSchema),
                "properties", JObj2("m", JObj1("$ref", JStr("#/$defs")),
                                    "n", JObj1("$ref", JStr("#/pos"))))}

\* object sub-schemas of every variant: one keyword alone, a type with a
\* keyword of each variant, and two keywords of different variants
KeywordValues ==
    [k |-> <<"minimum", "maximum", "exclusiveMinimum", "exclusiveMaximum", "multipleOf",
             "items", "additionalItems", "unevaluatedItems", "maxItems", "minItems",
             "uniqueItems", "contains", "maxContains", "minContains",
             "maxLength", "minLength", "pattern",
             "properties", "additionalProperties", "patternProperties", "minProperties",
             "maxProperties", "required", "dependentRequired", "dependentSchemas",
             "title">>,
     v |-> <<JInt(1), JInt(3), JInt(1), JInt(3), JInt(2),
             JObj1("type", JStr("integer")), JBool(FALSE), JBool(FALSE), JInt(2), JInt(1),
             JBool(TRUE), JObj1("type", JStr("integer")), JInt(1), JInt(1),
             JInt(3), JInt(1), JStr("h"),
             JObj1("a", JObj1("type", JStr("integer"))), JBool(FALSE), JEmptyObj, JInt(1),
             JInt(1), JArr(<<JStr("a")>>), JEmptyObj, JEmptyObj,
             JStr("x")>>]
Keyword(i) == JObj1(KeywordValues.k[i], KeywordValues.v[i])
VariantKeywords == {"minimum", "items", "additionalItems", "minLength", "properties", "title"}
VariantIndexes == {i \in 1..Len(KeywordValues.k) : KeywordValues.k[i] \in VariantKeywords}
VariantSchemas ==
    {Keyword(i) : i \in 1..Len(KeywordValues.k)}
    \cup {JObj2("type", JStr(type), KeywordValues.k[i], KeywordValues.v[i]) :
            type \in {"null", "boolean", "number", "integer", "array", "string", "object"},
            i \in VariantIndexes}
    \cup {JObj2(KeywordValues.k[p[1]], KeywordValues.v[p[1]],
                KeywordValues.k[p[2]], KeywordValues.v[p[2]]) :
            p \in {q \in VariantIndexes \X VariantIndexes : q[1] < q[2]}}

\* object schemas with and without properties, patternProperties and
\* additionalProperties; the key "a" is a property and matches the pattern "a"
ObjectSchemas ==
    {Present(JObj(<<"properties", "patternProperties", "additionalProperties">>,
                  <<properties, patterns, additional>>), 1) :
        properties \in {JUndef, JObj1("a", JObj1("type", JStr("integer")))},
        patterns \in {JUndef, JObj1("^b", JObj1("type", JStr("string"))),
                      JObj2("a", JObj1("type", JStr("string")),
                            "^b", JObj1("minLength", JInt(2)))},
        additional \in {JUndef, JBool(FALSE), JObj1("type", JStr("integer"))}}
      \ {JEmptyObj}
ObjectInstances ==
    {JEmptyObj, JInt(1)}
    \cup {JObj1(key, value) : key \in {"a", "b", "ab", "ba", "c"},
                              value \in {JInt(1), JStr("x"), JStr("xy")}}
    \cup {JObj2("a", JInt(1), "c", JStr("x")), JObj2("b", JStr("xy"), "c", JInt(1))}

\* items given as the array [string, number], with and without additionalItems
TupleSchemas ==
    {WithType(type,
        Present(JObj(<<"items", "additionalItems">>,
                     <<JArr(<<JObj1("type", JStr("string")), JObj1("type", JStr("number"))>>),
                       additional>>), 1)) :
        type \in {"", "array"},
        additional \in {JUndef, JBool(FALSE), JObj1("type", JStr("integer"))}}
TupleInstances ==
    {JArr(a) : a \in {<<>>, <<JStr("x")>>, <<JInt(1)>>, <<JStr("x"), JInt(1)>>,
                      <<JStr("x"), JStr("y")>>, <<JInt(1), JStr("x")>>,
                      <<JStr("x"), JInt(1), JBool(TRUE)>>, <<JStr("x"), JInt(1), JInt(2)>>,
                      <<JStr("x"), JInt(1), JInt(2), JStr("z")>>}}
    \cup {JStr("x")}

\* a contains child that is a type or a bound, alone and next to minItems and
\* maxItems
ContainsSchemas ==
    {WithType(type, Present(JObj(<<"contains", "minItems", "maxItems">>,
                                 <<contains, min_items, max_items>>), 1)) :
        type \in {"", "array"},
        contains \in {JObj1("type", JStr("integer")), JObj1("minimum", JInt(2))},
        min_items \in {JUndef, JInt(1)}, max_items \in {JUndef, JInt(2)}}
ContainsInstances ==
    {JArr(a) : a \in {<<>>, <<JStr("x")>>, <<JInt(1)>>, <<JInt(2)>>, <<JStr("x"), JInt(1)>>,
                      <<JInt(1), JStr("x")>>, <<JStr("x"), JStr("y")>>,
                      <<JInt(1), JInt(2), JInt(3)>>, <<JStr("x"), JStr("y"), JStr("z")>>}}
    \cup {JStr("x")}

\* items {type: integer} next to minItems and maxItems
SizedSchemas ==
    {Present(JObj(<<"items", "minItems", "maxItems">>,
                  <<JObj1("type", JStr("integer")), min_items, max_items>>), 1) :
        min_items \in {JUndef, JInt(2)}, max_items \in {JUndef, JInt(1)}}

\* anyOf and oneOf over children that add errors of their own when they fail
ScratchSchemas ==
    {WithType(type, JObj1(keyword, JArr(kids))) :
        type \in {"", "number"}, keyword \in {"anyOf", "oneOf"},
        kids \in {<<JObj1("type", JStr("integer")), JObj1("minimum", JInt(5))>>,
                  <<JObj1("maximum", JInt(1)), JObj1("minimum", JInt(5))>>}}

\* a root with the id "me" and one property, whose key is an ordinary name, a
\* token the resolver knows, or the id of the root
PropertyKeys == {"a", "properties", "$defs", "#", "me"}
PropertyKeySchemas ==
    {JObj2("$id", JStr("me"), "properties", JObj1(key, JObj1("type", JStr("integer")))) :
        key \in PropertyKeys}

\* a root with $defs.pos and one sub-schema {"$ref":"#/$defs/pos"} in each place
\* a sub-schema can stand; at is the slot of the node compiled from it
RefToPos == JObj1("$ref", JStr("#/$defs/pos"))
Place(keyword, value) ==
    [doc |-> JObj2("$defs", JObj1("pos", PosSchema), keyword, value),
     at |-> <<Slot(keyword, 1)>>]
Places ==
    {Place(keyword, JObj1("a", RefToPos)) :
        keyword \in {"properties", "patternProperties", "dependentSchemas"}}
    \cup {Place(keyword, RefToPos) :
        keyword \in {"additionalProperties", "propertyNames", "items", "contains", "not"}}
    \cup {Place(keyword, JArr(<<RefToPos>>)) : keyword \in {"allOf", "anyOf", "oneOf"}}
    \cup {[doc |-> JObj3("$defs", JObj1("pos", PosSchema), "items", JArr(<<>>),
                        "additionalItems", RefToPos),
           at |-> <<Slot("additionalItems", 1)>>],
          [doc |-> JObj1("$defs", JObj2("pos", PosSchema, "d", RefToPos)),
           at |-> <<Slot("$defs", 2)>>]}
PlaceSchemas == {place.doc : place \in Places}

\* a root with one definition and a property n whose $ref names it with the
\* key percent-encoded: key is the key of the definition, encoded the text
\* that stands for it in the $ref
PercentKeys ==
    {[key |-> "n", encoded |-> "%6E"], [key |-> "n", encoded |-> "%6e"],
     [key |-> "a/b", encoded |-> "a%2Fb"], [key |-> "a~b", encoded |-> "a%7Eb"],
     [key |-> "~1", encoded |-> "%7E1"], [key |-> "%", encoded |-> "%25"],
     [key |-> "%2F", encoded |-> "%252F"], [key |-> "%6E", encoded |-> "%256E"]}
PercentDoc(p) ==
    JObj2("$defs", JObj1(p.key, PosSchema),
          "properties", JObj1("n", JObj1("$ref", JStr("#/$defs/" \o p.encoded))))
PercentSchemas == {PercentDoc(p) : p \in PercentKeys}

\* a root that declares its dialect: the 2019-09 URL, another URL, or a value
\* that is not a string
DialectValues ==
    {JStr("https://json-schema.org/draft/2019-09/schema"),
     JStr("http://json-schema.org/draft-07/schema#"), JInt(1), JBool(TRUE), JNull}
DialectSchemas == {JObj2("$schema", value, "minimum", JInt(1)) : value \in DialectValues}

VariantInstances == {JNull, JInt(1), JStr("hi"), JArr(<<JInt(1)>>), JObj1("a", JInt(1))}

SchemaDocs ==
    CombinatorSchemas \cup NumberSchemas \cup TypeSchemas \cup ArraySchemas \cup RefSchemas
      \cup CycleSchemas \cup StaleSchemas \cup VariantSchemas \cup ObjectSchemas
      \cup TupleSchemas \cup ContainsSchemas \cup SizedSchemas \cup ScratchSchemas \cup PropertyKeySchemas \cup PlaceSchemas \cup PercentSchemas \cup DialectSchemas

\* the instances a schema is tried on
InstancesFor(json) ==
    IF json \in CombinatorSchemas THEN CombinatorInstances
    ELSE IF json \in NumberSchemas THEN NumberInstances
    ELSE IF json \in ArraySchemas THEN ArrayInstances
    ELSE IF json \in RefSchemas \cup StaleSchemas THEN RefInstances
    ELSE IF json \in CycleSchemas THEN CycleInstances
    ELSE IF json \in ObjectSchemas THEN ObjectInstances
    ELSE IF json \in TupleSchemas THEN TupleInstances
    ELSE IF json \in ContainsSchemas \cup SizedSchemas THEN ContainsInstances
    ELSE IF json \in ScratchSchemas THEN CombinatorInstances
    ELSE IF json \in PropertyKeySchemas THEN RefInstances
    ELSE IF json \in PlaceSchemas THEN RefInstances
    ELSE IF json \in PercentSchemas THEN RefInstances
    ELSE IF json \in DialectSchemas THEN NumberInstances
    ELSE IF json \in VariantSchemas THEN VariantInstances
    ELSE TypeInstances

(***************************************************************************)
(* The operations.                                                         *)
(***************************************************************************)
NoResult == [state |-> "none"]
known_schema == "https://json-schema.org/draft/2019-09/schema"

\* no process of main()
NoMain == [pc |-> "none"]
\* no call of resolve_reference(ref, root) looked at
NoWalk == [pc |-> "none"]

\* a Parser after construction in a process that resolved no reference yet
Constructed ==
    /\ schema = JUndef
    /\ m_root_node = None
    /\ m_reference = <<>>
    /\ m_parser_errors = <<>>
    /\ parser_result = [ok |-> TRUE]
    /\ statics = NoFlags
    /\ instance = JUndef
    /\ result = NoResult

Init == Constructed /\ cli = NoMain /\ walk = NoWalk

\* what Parser::run returns: true, or the errors recorded so far
RunResult(errors) == IF Len(errors) # 0 THEN [ok |-> FALSE, errors |-> errors] ELSE [ok |-> TRUE]

\* Parser::run(const JsonValue&) on a boolean or an object
ParserRun(json) ==
    /\ result = NoResult
    /\ is_bool(json) \/ is_object(json)
    /\ schema' = json
    /\ instance' = JUndef
    /\ UNCHANGED result
    /\ IF is_bool(json)
       THEN /\ m_root_node' = Some([BooleanNodeValue("", json.b) EXCEPT !.m_root = TRUE])
            /\ m_reference' = (<<>> :> None)
            /\ parser_result' = [ok |-> TRUE]
            /\ UNCHANGED <<m_parser_errors, statics>>
       ELSE LET dialect ==
                    IF as_string_or(get(json, "$schema"), known_schema) # known_schema
                    THEN <<"unknown json schema provided">> ELSE <<>>
            IN \E built \in {get_typed_node(json)} :
               \E root \in {[built.nodes[1] EXCEPT !.m_root = TRUE]} :
               \E pass \in {ResolvePass(root, <<>>, [refs |-> <<>>, flags |-> statics])} :
               \E errors \in {m_parser_errors \o dialect \o built.errs} :
                  /\ Len(errors) <= MaxParserErrors
                  /\ m_root_node' = Some(root)
                  /\ m_reference' = pass.refs
                  /\ statics' = pass.flags
                  /\ m_parser_errors' = errors
                  /\ parser_result' = RunResult(errors)

\* Validator::run on the compiled tree: the root validates the instance
ValidatorRun(json) ==
    /\ result = NoResult
    /\ has_value(m_root_node)
    /\ instance' = json
    /\ \E cast \in U64Casts :
       \E r \in {validate(<<>>, json, Context(MaxDepth, cast))} :
          result' = IF r.ovf THEN [state |-> "overflow"]
                    ELSE [state |-> "done", success |-> r.ret, errors |-> r.errs]
    /\ UNCHANGED <<schema, m_root_node, m_reference, m_parser_errors, parser_result,
                   statics>>

\* the caller is done with the ValidationResult
EndTest ==
    /\ result # NoResult
    /\ result' = NoResult
    /\ instance' = JUndef
    /\ UNCHANGED <<schema, m_root_node, m_reference, m_parser_errors, parser_result,
                   statics>>

Next ==
    \/ \E json \in SchemaDocs : ParserRun(json) /\ UNCHANGED <<cli, walk>>
    \/ \E json \in InstancesFor(schema) : ValidatorRun(json) /\ UNCHANGED <<cli, walk>>
    \/ EndTest /\ UNCHANGED <<cli, walk>>

Spec == Init /\ [][Next]_vars

(***************************************************************************)
(* main(): jsonvalidator <schema-file> <json-file>.  A process starts with *)
(* its argument count and with each of the two files readable or not; the  *)
(* content of a readable file is a schema document and an instance.        *)
(***************************************************************************)
ArgCounts == 1..MaxArgc

Started(argc, schema_file, json_file) ==
    [pc |-> "start", argc |-> argc, schema_file |-> schema_file, json_file |-> json_file,
     status |-> None]

\* return <status>
Return(status) == [cli EXCEPT !.pc = "returned", !.status = Some(status)]

MainInit ==
    /\ Constructed
    /\ walk = NoWalk
    /\ \E argc \in ArgCounts : \E schema_file \in BOOLEAN : \E json_file \in BOOLEAN :
          cli = Started(argc, schema_file, json_file)

\* main up to the second open: the usage check and the two files
MainOpen ==
    /\ cli.pc = "start"
    /\ cli' = IF cli.argc # 3 THEN Return(0)
              ELSE IF ~cli.schema_file THEN Return(1)
              ELSE IF ~cli.json_file THEN Return(1)
              ELSE [cli EXCEPT !.pc = "opened"]
    /\ UNCHANGED <<schema, m_root_node, m_reference, m_parser_errors, parser_result,
                   statics, instance, result, walk>>

\* parser.run(schema_json) and the test of what it returned; a mutation that
\* goes on to the validation whatever the parser returned
MainParseIgnoresErrors(json) ==
    /\ cli.pc = "opened"
    /\ ParserRun(json)
    /\ cli' = [cli EXCEPT !.pc = "parsed"]
    /\ UNCHANGED walk

\* parser.run(schema_json) and the test of what it returned
MainParse(json) ==
    /\ cli.pc = "opened"
    /\ ParserRun(json)
    /\ cli' = IF parser_result'.ok THEN [cli EXCEPT !.pc = "parsed"] ELSE Return(1)
    /\ UNCHANGED walk

\* validator.run(parser, json_file_content) and the test of r.success; a run
\* that does not come back leaves the process without a status
MainValidate(json) ==
    /\ cli.pc = "parsed"
    /\ ValidatorRun(json)
    /\ cli' = IF result'.state = "overflow" THEN [cli EXCEPT !.pc = "diverged"]
              ELSE IF result'.success THEN Return(0)
              ELSE Return(1)
    /\ UNCHANGED walk

MainNext ==
    \/ MainOpen
    \/ \E json \in SchemaDocs : MainParse(json)
    \/ \E json \in InstancesFor(schema) : MainValidate(json)

MainSpec == MainInit /\ [][MainNext]_vars

(***************************************************************************)
(* One call of resolve_reference(ref, root_node), an iteration of its loop *)
(* at a time: the root is the tree of the last Parser::run, the ref any    *)
(* string.  walk.tokens keeps the text of each token the loop cut out.     *)
(***************************************************************************)
WalkRefs ==
    {"", "#", "/", "//", "#/", "#//", "/#", "a", "#/$defs", "#/$defs/pos", "#/$defs/pos/",
     "#/$defs//pos", "#/properties/n", "#/properties//n", "#/items/0", "#/items/0/",
     "~1/~0"}
WalkDocs ==
    {JObj2("$defs", JObj1("pos", PosSchema), "properties", JObj1("n", JObj1("minimum", JInt(1)))),
     JObj1("items", JArr(<<JObj1("type", JStr("string"))>>)),
     JObj1("type", JStr("string")), JBool(TRUE)}

\* the call: an empty ref returns null at once
WalkCall(ref) ==
    /\ walk.pc # "loop"
    /\ has_value(m_root_node)
    /\ walk' = [pc |-> IF ref = "" THEN "returned" ELSE "loop", ref |-> ref,
                last |-> 0, next |-> 0, node |-> IF ref = "" THEN None ELSE Some(<<>>),
                tokens |-> <<>>]
    /\ UNCHANGED <<schema, m_root_node, m_reference, m_parser_errors, parser_result,
                   statics, instance, result, cli>>

\* one iteration of the loop; a mutation in which last is set to next
WalkIterateNoAdvance ==
    /\ walk.pc = "loop"
    /\ walk.next < Len(walk.ref)
    /\ Len(walk.tokens) < MaxTokens
    /\ \E found \in {find_char(walk.ref, "/", walk.last)} :
       \E next \in {IF found < 0 THEN Len(walk.ref) ELSE found} :
       \E token \in {substring(walk.ref, walk.last, next - walk.last)} :
       \E identifier \in {replace_all(replace_all(token, "~1", "/"), "~0", "~")} :
       \E h \in {resolve_reference_handle_identifer(m_root_node[1], walk.node[1],
                                                     identifier, statics)} :
          /\ walk' = [walk EXCEPT !.next = next, !.last = next, !.node = h.node,
                                  !.tokens = Append(@, token),
                                  !.pc = IF has_value(h.node) THEN "loop" ELSE "returned"]
          /\ statics' = h.flags
    /\ UNCHANGED <<schema, m_root_node, m_reference, m_parser_errors, parser_result,
                   instance, result, cli>>

\* one iteration of the loop: the next token is cut out and handled, and a
\* handler that finds nothing ends the call with null
WalkIterate ==
    /\ walk.pc = "loop"
    /\ walk.next < Len(walk.ref)
    /\ Len(walk.tokens) < MaxTokens
    /\ \E found \in {find_char(walk.ref, "/", walk.last)} :
       \E next \in {IF found < 0 THEN Len(walk.ref) ELSE found} :
       \E token \in {substring(walk.ref, walk.last, next - walk.last)} :
       \E identifier \in {replace_all(replace_all(token, "~1", "/"), "~0", "~")} :
       \E h \in {resolve_reference_handle_identifer(m_root_node[1], walk.node[1],
                                                     identifier, statics)} :
          /\ walk' = [walk EXCEPT !.next = next, !.last = next + 1, !.node = h.node,
                                  !.tokens = Append(@, token),
                                  !.pc = IF has_value(h.node) THEN "loop" ELSE "returned"]
          /\ statics' = h.flags
    /\ UNCHANGED <<schema, m_root_node, m_reference, m_parser_errors, parser_result,
                   instance, result, cli>>

\* the loop condition fails: the call returns the node it stands on
WalkReturn ==
    /\ walk.pc = "loop"
    /\ ~(walk.next < Len(walk.ref))
    /\ walk' = [walk EXCEPT !.pc = "returned"]
    /\ UNCHANGED <<schema, m_root_node, m_reference, m_parser_errors, parser_result,
                   statics, instance, result, cli>>

WalkNext ==
    \/ \E json \in WalkDocs : walk.pc # "loop" /\ ParserRun(json) /\ UNCHANGED <<cli, walk>>
    \/ \E ref \in WalkRefs : WalkCall(ref)
    \/ WalkIterate
    \/ WalkReturn

\* a call that can take a step takes it
WalkSpec ==
    Init /\ [][WalkNext]_vars /\ WF_vars(WalkIterate) /\ WF_vars(WalkReturn)

(***************************************************************************)
(* Properties.  A state with a finished validation holds the schema, the   *)
(* tree compiled from it, the instance and the ValidationResult.           *)
(***************************************************************************)
Root == m_root_node[1]
Done == result.state = "done"
Contexts == {Context(MaxDepth, cast) : cast \in U64Casts}
Nodes == AllPaths(Root, <<>>)
\* the number of children in a combinator list of the node at path that
\* validate json
Validating(path, member, json, d) ==
    {i \in 1..Len(MemberSeq(This(path), member)) :
        validate(Append(path, Slot(member, i)), json, d).ret}
\* the errors of the result with the text msg that name the root
RootErrors(msg) == {i \in 1..Len(result.errors) :
                      /\ result.errors[i].msg = msg
                      /\ result.errors[i].msg # "type validation failed"
                      /\ result.errors[i].at = <<>>}
\* the root ran the common logic past the type gate and the required check
RootRanCommon ==
    /\ Root.class # "Boolean"
    /\ ~(Root.m_type_str # "" /\ ~validate_type(Root.m_type, instance))
    /\ ~(Root.m_required /\ is_undefined(instance))

\* C1: for every node whose one_of list is not empty and every instance, the
\* oneOf part of the validation succeeds exactly when exactly one child of the
\* list validates the instance (none, or two or more, make it fail); a root
\* that ran the common logic reports the oneOf error exactly in that case.
C1_OneOfExactlyOne ==
    Done =>
      /\ \A path \in Nodes, d \in Contexts :
            Len(This(path).m_one_of) # 0 =>
              (OneOfPart(path, instance, d).ret
                 <=> Cardinality(Validating(path, "oneOf", instance, d)) = 1)
      /\ \A d \in Contexts :
            Len(Root.m_one_of) # 0 /\ RootRanCommon =>
              /\ result.success => Cardinality(Validating(<<>>, "oneOf", instance, d)) = 1
              /\ RootErrors("not one item matched in oneOf") # {}
                   <=> Cardinality(Validating(<<>>, "oneOf", instance, d)) # 1

\* C1 happens: a oneOf of three children that all validate has failed
C1_Witness ==
    /\ Done
    /\ Len(Root.m_one_of) = 3
    /\ RootRanCommon
    /\ \A d \in Contexts : Cardinality(Validating(<<>>, "oneOf", instance, d)) = 3
    /\ ~result.success

\* C2: for a schema with allOf: [S1, ..., Sn], whatever variant it is
\* classified as, the allOf part succeeds exactly when every Si validates the
\* instance, and the schema validates the instance only if every Si does.
C2_AllOfEveryVariant ==
    Done =>
      \A path \in Nodes, d \in Contexts :
         Len(This(path).m_all_of) # 0 =>
           LET all == Cardinality(Validating(path, "allOf", instance, d))
                         = Len(This(path).m_all_of)
           IN /\ AllOfPart(path, instance, d).ret <=> all
              /\ validate(path, instance, d).ret => all

\* C3: for every node whose any_of list is not empty, the anyOf part succeeds
\* exactly when at least one child validates the instance, and when none does
\* it adds exactly one anyOf error and none of the children's errors; a root
\* that ran the common logic reports one anyOf error in that case, else none.
C3_AnyOfAtLeastOne ==
    Done =>
      /\ \A path \in Nodes, d \in Contexts :
            Len(This(path).m_any_of) # 0 =>
              LET part == AnyOfPart(path, instance, d)
                  some == Validating(path, "anyOf", instance, d) # {}
              IN /\ part.ret <=> some
                 /\ some => part.errs = <<>>
                 /\ ~some => part.errs = <<ErrorAt("not item matched in anyOf", path, instance)>>
      /\ \A d \in Contexts :
            Len(Root.m_any_of) # 0 /\ RootRanCommon =>
              /\ result.success => Validating(<<>>, "anyOf", instance, d) # {}
              /\ Cardinality(RootErrors("not item matched in anyOf"))
                   = IF Validating(<<>>, "anyOf", instance, d) = {} THEN 1 ELSE 0

\* C3 happens: an anyOf whose last child fails has succeeded by an earlier one
C3_Witness ==
    /\ Done
    /\ Len(Root.m_any_of) >= 2
    /\ RootRanCommon
    /\ \A d \in Contexts :
          LET some == Validating(<<>>, "anyOf", instance, d)
          IN some # {} /\ Len(Root.m_any_of) \notin some
    /\ result.success

\* C4: for every node with a not child S, the not part succeeds exactly when S
\* fails to validate the instance; a root that ran the common logic validates
\* the instance only if S fails.
C4_NotNegates ==
    Done =>
      /\ \A path \in Nodes, d \in Contexts :
            has_value(This(path).m_not) =>
              (NotPart(path, instance, d).ret
                 <=> ~validate(Append(path, Slot("not", 1)), instance, d).ret)
      /\ \A d \in Contexts :
            has_value(Root.m_not) /\ RootRanCommon /\ result.success
               => ~validate(<<Slot("not", 1)>>, instance, d).ret

\* C4 happens: a root with a not child that looks at the instance has
\* validated an instance the child rejects
C4_Witness ==
    /\ Done
    /\ has_value(Root.m_not)
    /\ RootRanCommon
    /\ Root.m_not[1].class = "Number"
    /\ is_number(instance)
    /\ \A d \in Contexts : ~validate(<<Slot("not", 1)>>, instance, d).ret
    /\ result.success

\* the JSON type of json satisfies the type string
Satisfies(type_str, json) ==
    CASE type_str = "null" -> is_null(json)
      [] type_str = "boolean" -> is_bool(json)
      [] type_str \in {"number", "integer"} -> is_number(json)
      [] type_str = "string" -> is_string(json)
      [] type_str = "array" -> is_array(json)
      [] type_str = "object" -> is_object(json)
      [] OTHER -> TRUE

\* C5: a node with a type string fails every instance whose JSON type does not
\* satisfy it, with at least one type error, before any other keyword is looked
\* at.
C5_TypeGate ==
    Done /\ Root.m_type_str # "" /\ ~Satisfies(Root.m_type_str, instance) =>
      /\ ~result.success
      /\ \E i \in 1..Len(result.errors) : result.errors[i].msg = "type validation failed"

\* the bounds a schema object sets, for the number x in units of 1/Den
BoundViolated(o, keyword, x) ==
    /\ has(o, keyword)
    /\ LET b == to_number(get(o, keyword))
       IN CASE keyword = "minimum" -> ~(x >= b)
            [] keyword = "maximum" -> ~(x <= b)
            [] keyword = "exclusiveMinimum" -> ~(x > b)
            [] keyword = "exclusiveMaximum" -> ~(x < b)
BoundError(keyword) ==
    CASE keyword = "minimum" -> "Minimum invalid"
      [] keyword = "maximum" -> "Maximum invalid"
      [] keyword = "exclusiveMinimum" -> "exclusiveMinimum invalid"
      [] keyword = "exclusiveMaximum" -> "exclusiveMaximum invalid"
BoundKeys == {BoundKeywords[i] : i \in 1..Len(BoundKeywords)}

\* C6: for a Number node and a numeric instance x the bound checks pass exactly
\* when x >= minimum, x <= maximum, x > exclusiveMinimum and
\* x < exclusiveMaximum hold for each bound the schema sets: each bound adds
\* its error exactly when x violates it, and a schema of bounds alone
\* validates x exactly when no bound is violated.
C6_NumericBounds ==
    Done /\ is_object(schema) /\ Root.class = "Number" /\ is_number(instance) =>
      /\ \A keyword \in BoundKeys :
            RootErrors(BoundError(keyword)) # {}
              <=> BoundViolated(schema, keyword, to_number(instance))
      /\ (\A i \in 1..Len(schema.k) : schema.k[i] \in BoundKeys) =>
            (result.success
               <=> \A keyword \in BoundKeys :
                      ~BoundViolated(schema, keyword, to_number(instance)))

\* C6 happens: an instance equal to the minimum and to the exclusive maximum
\* has passed the first and failed the second
C6_Witness ==
    /\ Done /\ is_object(schema) /\ Root.class = "Number" /\ is_number(instance)
    /\ has(schema, "minimum") /\ has(schema, "exclusiveMaximum")
    /\ to_number(instance) = to_number(get(schema, "minimum"))
    /\ to_number(instance) = to_number(get(schema, "exclusiveMaximum"))
    /\ RootErrors("Minimum invalid") = {}
    /\ RootErrors("exclusiveMaximum invalid") # {}
    /\ ~result.success

\* C7: for a Number node with multipleOf k > 0 and a numeric instance x, the
\* multipleOf check passes exactly when x / k is integral, a negative x
\* included.
C7_MultipleOf ==
    Done /\ Root.class = "Number" /\ has_value(Root.m_multiple_of) /\ is_number(instance) =>
      (RootErrors("multipleOf invalid") = {}
         <=> to_number(instance) % Root.m_multiple_of[1] = 0)

\* C8: for an Array node with unique_items true and an array instance that
\* passes minItems and maxItems, the uniqueItems check fails exactly when two
\* elements at different positions are equal as JSON values.
C8_UniqueItems ==
    Done /\ Root.class = "Array" /\ Root.m_unique_items /\ is_array(instance)
       /\ ~(Len(instance.a) < Root.m_min_items)
       /\ ~(has_value(Root.m_max_items) /\ Len(instance.a) > Root.m_max_items[1]) =>
      (RootErrors("uniqueItems violation with duplicate item") # {}
         <=> \E i, j \in 1..Len(instance.a) :
                i < j /\ equals(instance.a[i], instance.a[j]))

\* C9: in the tree compiled from a root with $defs.<name> and a node with
\* $ref "#/$defs/<name>", that node validates an instance only if the instance
\* validates against the sub-schema compiled from $defs.<name>.
C9_RefToDefs ==
    Done /\ is_object(instance) /\ has(instance, "n") =>
      \A path \in Nodes, name \in DefNames, d \in Contexts :
         This(path).m_ref = "#/$defs/" \o name /\ MapHas(Root.m_defs, name) =>
           (validate(path, get(instance, "n"), d).ret
              => validate(<<Slot("$defs", IndexOfKey(Root.m_defs.k, name))>>,
                          get(instance, "n"), d).ret)

\* C10: a validation that does not succeed leaves at least one error in the
\* result.
C10_FailureHasError ==
    Done /\ ~result.success => Len(result.errors) # 0

\* C11: every validation of a finite instance against a compiled tree comes to
\* an end with a result, also when the resolved $ref links of the tree form a
\* cycle that does not descend into the instance: the chain of nested validate
\* calls never grows without end.
C11_ValidationTerminates ==
    result.state # "overflow"

\* C12: what a compilation yields depends on the schema alone, not on the
\* compilations that ran before it in the process: the reference every node of
\* the tree holds, which validate follows, is the one a compilation that starts
\* from the initial selected_* flags resolves.
FreshReferences ==
    ResolvePass(Root, <<>>, [refs |-> <<>>, flags |-> NoFlags]).refs
InsidePattern(path) == \E i \in 1..Len(path) : path[i].member = "patternProperties"
C13_PointerRoundTrip ==
    has_value(m_root_node) =>
        \A path \in Nodes :
            ~InsidePattern(path) =>
                resolve_reference(calculate_json_pointer(Root, path), Root, NoFlags).node
                  = Some(path)

\* C14: a process of main that returns has status 1 exactly when it tried to
\* open the two files and one of them could not be opened, or the schema did
\* not compile, or the validation failed, and status 0 otherwise, also when
\* the argument count is wrong; and the validator has run only in a process
\* whose parser returned true.
OpenFailed == cli.argc = 3 /\ (~cli.schema_file \/ ~cli.json_file)
CompileFailed == schema # JUndef /\ ~parser_result.ok
ValidationFailed == result.state = "done" /\ ~result.success
OwnErrors(json) ==
    (IF as_string_or(get(json, "$schema"), known_schema) # known_schema
     THEN <<"unknown json schema provided">> ELSE <<>>) \o get_typed_node(json).errs
C15_RunReturnsOwnErrors ==
    is_object(schema) => (parser_result.ok <=> OwnErrors(schema) = <<>>)

\* C16: the variant of the node compiled from an object sub-schema follows the
\* ordered rules, first match wins: type null, type boolean, type number or
\* integer or a number keyword, type array or an array keyword, type string or
\* a string keyword, the empty object (the literal true), type object or an
\* object keyword, and Undefined otherwise.  array_keywords is the set of
\* keywords that select the Array variant.
Variant(o, array_keywords) ==
    LET type == IF has(o, "type") /\ is_string(get(o, "type")) THEN get(o, "type").s ELSE ""
        rules ==
            << <<type = "null", "Null">>,
               <<type = "boolean", "Boolean">>,
               <<type \in {"number", "integer"}
                   \/ HasAny(o, {"minimum", "maximum", "exclusiveMinimum",
                                 "exclusiveMaximum", "multipleOf"}), "Number">>,
               <<type = "array" \/ HasAny(o, array_keywords), "Array">>,
               <<type = "string" \/ HasAny(o, {"maxLength", "minLength", "pattern"}),
                 "String">>,
               <<o.k = <<>>, "True">>,
               <<type = "object"
                   \/ HasAny(o, {"properties", "additionalProperties", "patternProperties",
                                 "minProperties", "maxProperties", "required",
                                 "dependentRequired", "dependentSchemas"}), "Object">>,
               <<TRUE, "Undefined">> >>
        first == CHOOSE i \in 1..Len(rules) : rules[i][1] /\ \A j \in 1..(i - 1) : ~rules[j][1]
    IN rules[first][2]
VariantOf(node) ==
    IF node.class = "Boolean" /\ node.m_value = Some(TRUE) THEN "True" ELSE node.class
\* the claim as made: additionalItems alone selects the Array variant
C16_VariantAsClaimed ==
    has_value(m_root_node) /\ is_object(schema) =>
        VariantOf(Root) = Variant(schema, {"items", "additionalItems", "unevaluatedItems",
                                           "maxItems", "minItems", "uniqueItems", "contains",
                                           "maxContains", "minContains"})
\* the claim as amended: additionalItems selects nothing by itself
C16_Variant ==
    has_value(m_root_node) /\ is_object(schema) =>
        VariantOf(Root) = Variant(schema, {"items", "unevaluatedItems", "maxItems", "minItems",
                                           "uniqueItems", "contains", "maxContains",
                                           "minContains"})
C16_Witness ==
    /\ has_value(m_root_node)
    /\ schema = JObj1("additionalItems", JBool(FALSE))
    /\ VariantOf(Root) = "Undefined"

\* C17: an object instance is valid against an Object node with properties,
\* patternProperties and additionalProperties exactly when every member is: a
\* member whose key is in properties is answered by that property child alone;
\* any other member by every pattern child whose pattern matches the key, and,
\* when no pattern matches, by the additional_properties child; without the
\* additionalProperties keyword such a member is accepted.
Matching(key) ==
    {i \in 1..Len(Root.m_pattern_properties) :
        match_against_pattern(Root.m_pattern_properties[i].m_pattern, key)}
MemberAccepted(key, value, d) ==
    IF MapHas(Root.m_properties, key)
    THEN validate(<<Slot("properties", IndexOfKey(Root.m_properties.k, key))>>, value, d).ret
    ELSE /\ \A i \in Matching(key) : validate(<<Slot("patternProperties", i)>>, value, d).ret
         /\ Matching(key) = {} /\ has(schema, "additionalProperties") =>
               validate(<<Slot("additionalProperties", 1)>>, value, d).ret
C17_MemberSelection ==
    Done /\ schema \in ObjectSchemas /\ is_object(instance) =>
        \A d \in Contexts :
            result.success
              = (\A i \in 1..Len(instance.k) : MemberAccepted(instance.k[i], instance.v[i], d))
C17_Witness ==
    /\ Done /\ schema \in ObjectSchemas /\ result.success
    /\ get(schema, "additionalProperties") = JBool(FALSE)
    /\ instance = JObj1("b", JStr("xy"))

\* C18: with items given as an array, an array instance is valid exactly when
\* every element is: element i against items[i] when i is below the number of
\* items, against additional_items when it is not and additional_items is set,
\* and against nothing otherwise.  With items [string, number] and
\* additionalItems false, ["x",1] is valid, ["x",1,true] and [1,"x"] are not.
ElementAccepted(i, d) ==
    IF i - 1 < Len(Root.m_items)
    THEN validate(<<Slot("items", i)>>, instance.a[i], d).ret
    ELSE has_value(Root.m_additional_items) =>
           validate(<<Slot("additionalItems", 1)>>, instance.a[i], d).ret
TupleExample ==
    JObj3("type", JStr("array"),
          "items", JArr(<<JObj1("type", JStr("string")), JObj1("type", JStr("number"))>>),
          "additionalItems", JBool(FALSE))
C18_TupleMode ==
    Done /\ schema \in TupleSchemas /\ is_array(instance) =>
        /\ Root.m_items_is_array
        /\ \A d \in Contexts :
              result.success = (\A i \in 1..Len(instance.a) : ElementAccepted(i, d))
        /\ schema = TupleExample =>
              /\ instance = JArr(<<JStr("x"), JInt(1)>>) => result.success
              /\ instance = JArr(<<JStr("x"), JInt(1), JBool(TRUE)>>) => ~result.success
              /\ instance = JArr(<<JInt(1), JStr("x")>>) => ~result.success
C18_Witness ==
    /\ Done /\ schema = TupleExample /\ ~result.success
    /\ instance = JArr(<<JStr("x"), JInt(1), JBool(TRUE)>>)

\* C19: for an Array node with a contains child and an array instance whose
\* size passes minItems and maxItems, the contains check succeeds exactly when
\* some element validates against the contains child, so not for the empty
\* array; when it fails the result holds one contains error and nothing else,
\* no error of the contains child, and when it succeeds it holds no error.
SizeAccepted ==
    /\ ~(Len(instance.a) < Root.m_min_items)
    /\ ~(has_value(Root.m_max_items) /\ Len(instance.a) > Root.m_max_items[1])
Contained(d) ==
    \E i \in 1..Len(instance.a) : validate(<<Slot("contains", 1)>>, instance.a[i], d).ret
C19_Contains ==
    Done /\ schema \in ContainsSchemas /\ is_array(instance) /\ SizeAccepted =>
        \A d \in Contexts :
            /\ result.success = Contained(d)
            /\ result.errors = IF Contained(d) THEN <<>>
                               ELSE <<ErrorAt("Array contains violation", <<>>, instance)>>
C19_Witness ==
    /\ Done /\ schema \in ContainsSchemas
    /\ instance = JArr(<<JStr("x"), JStr("y")>>) /\ SizeAccepted
    /\ ~result.success /\ Len(result.errors) = 1

\* C20: the failure of one keyword of a node does not keep its other keywords
\* and children from being evaluated: for an Array node with items, minItems
\* and maxItems, the errors of every element that fails the items child are in
\* the result, whether or not the size of the array violates minItems or
\* maxItems.
ItemErrors(d) ==
    UNION {LET errs == validate(<<Slot("items", 1)>>, instance.a[i], d).errs
           IN {errs[n] : n \in 1..Len(errs)} : i \in 1..Len(instance.a)}
C20_TraversalGoesOn ==
    Done /\ schema \in SizedSchemas /\ is_array(instance) =>
        \A d \in Contexts :
            ItemErrors(d) \subseteq {result.errors[n] : n \in 1..Len(result.errors)}

\* C21: the errors of the children of anyOf and oneOf stay in a scratch buffer:
\* a root whose only keyword is anyOf or oneOf leaves no error in the result
\* when the combinator succeeds, and exactly the one error of the combinator,
\* none of the children's, when it fails.
CombinatorError ==
    IF has(schema, "anyOf") THEN ErrorAt("not item matched in anyOf", <<>>, instance)
    ELSE ErrorAt("not one item matched in oneOf", <<>>, instance)
ChildrenErrors(d) ==
    \E member \in {"anyOf", "oneOf"} :
        \E i \in 1..Len(MemberSeq(Root, member)) :
            validate(<<Slot(member, i)>>, instance, d).errs # <<>>
C21_ScratchBuffers ==
    Done /\ schema \in ScratchSchemas /\ RootRanCommon =>
        result.errors = IF result.success THEN <<>> ELSE <<CombinatorError>>
C21_Witness ==
    /\ Done /\ schema \in ScratchSchemas /\ RootRanCommon
    /\ \A d \in Contexts : ChildrenErrors(d)
    /\ ~result.success /\ Len(result.errors) = 1

\* C22: a node of any variant runs the common logic: an instance the root
\* accepts satisfies the allOf, reference, anyOf, not, oneOf and enum parts of
\* the root, also when the root is a Boolean node compiled from a schema with
\* type boolean.
HeaderHolds(d) ==
    /\ AllOfPart(<<>>, instance, d).ret
    /\ ReferencePart(<<>>, instance, d).ret
    /\ AnyOfPart(<<>>, instance, d).ret
    /\ NotPart(<<>>, instance, d).ret
    /\ OneOfPart(<<>>, instance, d).ret
    /\ EnumPart(<<>>, instance).ret
C22_HeaderEveryVariant ==
    Done /\ is_object(schema) /\ result.success => \A d \in Contexts : HeaderHolds(d)

ChildOf(map, member, key) ==
    IF MapHas(map, key) THEN Some(<<Slot(member, IndexOfKey(map.k, key))>>) ELSE None
C24_NextTokenIsKey ==
    has_value(m_root_node) /\ is_object(schema) =>
        \A key \in PropertyKeys \cup DefNames \cup {"missing"} :
            /\ Root.class = "Object" =>
                  resolve_reference("#/properties/" \o key, Root, NoFlags).node
                    = ChildOf(Root.m_properties, "properties", key)
            /\ resolve_reference("#/$defs/" \o key, Root, NoFlags).node
                  = ChildOf(Root.m_defs, "$defs", key)

\* C25: after Parser::run on an object schema the resolver pass has visited
\* every node: a sub-schema with a $ref naming an existing target, in whatever
\* place it stands (propertyNames included), is a node of the tree whose
\* reference is that target.
C25_EveryPlaceResolved ==
    has_value(m_root_node) =>
        \A place \in Places :
            schema = place.doc =>
                /\ place.at \in Nodes
                /\ NodeAt(Root, place.at).m_ref = "#/$defs/pos"
                /\ reference(place.at) = Some(<<Slot("$defs", 1)>>)

\* C26: set_ref decodes each percent-encoded octet of a $ref once (%2F to ~1,
\* %7E to ~0), so that after the unescaping of the resolver the token is the
\* key that was encoded: a $ref that names a definition by its percent-encoded
\* key resolves to that definition.
C26_DecodedOnce ==
    has_value(m_root_node) =>
        \A p \in PercentKeys :
            schema = PercentDoc(p) =>
                reference(<<Slot("properties", 1)>>) = Some(<<Slot("$defs", 1)>>)

\* C27: whenever the root has a $schema whose value is anything but the
\* 2019-09 URL string, another string or a value that is not a string, run
\* records a parser error, compiles the rest of the schema all the same and
\* returns the error list.
DialectError == "unknown json schema provided"
C27_DialectCheck ==
    /\ has_value(m_root_node) /\ is_object(schema)
    /\ has(schema, "$schema") /\ get(schema, "$schema") # JStr(known_schema)
    => /\ ~parser_result.ok
       /\ \E i \in DOMAIN parser_result.errors : parser_result.errors[i] = DialectError
       /\ Root.m_minimum = Some(to_number(get(schema, "minimum")))

\* C28: in every compiled tree the type of a node is the InstanceType its type
\* string names, "integer" and "number" naming Number, also when the sub-schema
\* carries keywords of another variant.
TypeNamed(type_str) ==
    CASE type_str = "null" -> "Null"
      [] type_str = "boolean" -> "Boolean"
      [] type_str \in {"number", "integer"} -> "Number"
      [] type_str = "array" -> "Array"
      [] type_str = "string" -> "String"
      [] type_str = "object" -> "Object"
TypeNames == {"null", "boolean", "number", "integer", "array", "string", "object"}
C28_TypeIsDeclared ==
    has_value(m_root_node) =>
        \A path \in Nodes :
            NodeAt(Root, path).m_type_str \in TypeNames =>
                NodeAt(Root, path).m_type = TypeNamed(NodeAt(Root, path).m_type_str)

\* C29: the unique_items flag of a node is set only when "uniqueItems" is true
\* in its schema, so a schema with "uniqueItems": false accepts an array with
\* two equal elements.
C29_UniqueItemsFalse ==
    /\ has_value(m_root_node) /\ is_object(schema) /\ Root.class = "Array" =>
          (Root.m_unique_items => get(schema, "uniqueItems") = JBool(TRUE))
    /\ Done /\ schema = JObj1("uniqueItems", JBool(FALSE)) /\ is_array(instance) =>
          result.success

\* C30: resolve_reference(ref, root) terminates for every ref, with empty
\* tokens and leading, doubled or trailing '/' too: each iteration of the loop
\* cuts out the next '/'-separated token and moves the scan position forward,
\* so no more tokens are handled than the ref has, one more than its '/', and
\* every call returns.
RECURSIVE Split(_)
Split(str) ==
    IF \A i \in 1..Len(str) : SubSeq(str, i, i) # "/" THEN <<str>>
    ELSE LET i == CHOOSE i \in 1..Len(str) :
                    /\ SubSeq(str, i, i) = "/"
                    /\ \A j \in 1..(i - 1) : SubSeq(str, j, j) # "/"
         IN <<SubSeq(str, 1, i - 1)>> \o Split(SubSeq(str, i + 1, Len(str)))
Slashes(str) == Cardinality({i \in 1..Len(str) : SubSeq(str, i, i) = "/"})
TokensAreOfRef ==
    walk.pc # "none" =>
        /\ Len(walk.tokens) <= Slashes(walk.ref) + 1
        /\ walk.tokens = SubSeq(Split(walk.ref), 1, Len(walk.tokens))
Advances ==
    walk.pc = "loop" /\ walk'.tokens # walk.tokens =>
        /\ walk'.last > walk.last
        /\ Len(walk'.tokens) = Len(walk.tokens) + 1
C30_WalkTerminates ==
    /\ []TokensAreOfRef
    /\ [][Advances]_vars
    /\ (walk.pc = "loop") ~> (walk.pc = "returned")
C30_Witness ==
    /\ walk.pc = "returned"
    /\ walk.ref = "#/items/0/"
    /\ walk.tokens = <<"#", "items", "0", "">>
    /\ has_value(walk.node)
====
